---- MODULE Spec2Model ----
(***************************************************************************)
(* Fleet control plane: the VM lifecycle manager (OrchestratorService),    *)
(* the tunnel rotation service, the fingerprint sync service, the job      *)
(* engine (AutomationService) and the Operation ledger they share.         *)
(*                                                                         *)
(* Request handlers are `async def` routes that call the synchronous       *)
(* service method without awaiting, so one handler runs to completion on   *)
(* the event loop before the next one starts: each handler is one action.  *)
(* Background tasks are plain functions, run on worker threads after the   *)
(* response; each opens its own session and commits after every repository *)
(* write, so a task is a sequence of steps that interleave with handlers   *)
(* and with other tasks.                                                   *)
(*                                                                         *)
(* A session caches a loaded row until its next commit: a task's read of   *)
(* vm.status / vm.network_id / vm.public_ip after an adapter call returns  *)
(* the values loaded before the call (the seen_* fields of a task).        *)
(*                                                                         *)
(* `settings` is the process configuration the command runner and the      *)
(* infrastructure adapter read, and `infra` what the adapter's latest call *)
(* did: the API calls, the runner calls and the result.  The lifecycle and *)
(* job runs keep the default configuration and treat an adapter call as    *)
(* a success or a failure; the adapter runs take every configuration.      *)
(***************************************************************************)
EXTENDS Integers, Sequences, FiniteSets, TLC

VARIABLES vms, tunnels, ops, tasks, guardrails, last, jobs, reqs, settings, infra

vars == <<vms, tunnels, ops, tasks, guardrails, last, jobs, reqs, settings, infra>>

----------------------------------------------------------------------------
(* Bounds *)

\* Length of the Operation ledger (one background task per queued Operation).
MaxOps == 3

\* The max_vms guardrail the governance collaborator has set.
GuardMaxVms == 1

VmIds == {"vm-a", "vm-b"}

JobIds == {"job-1"}

\* Two callers whose stop requests are served at the same time.
Callers == {"c1", "c2"}

None == "None"

----------------------------------------------------------------------------
(* Program constants *)

ACTIVE_VM_STATES == {"creating", "running", "stopping", "restarting"}
STOPPABLE_VM_STATES == {"running", "restarting"}
RESTARTABLE_VM_STATES == {"running", "stopped"}
DELETABLE_VM_STATES == {"creating", "running", "stopping", "stopped", "restarting", "error"}

IN_FLIGHT == {"pending", "running"}

host_total_ram_mb == 32768
SeedMinHostRamMb == 2048
SeedMaxCpuPerVm == 2

Templates == {"t-001"}

\* Every VM status a row can hold; "absent" stands for no row with that id.
VmStatuses == {"absent", "creating", "running", "stopping", "stopped",
               "restarting", "deleting", "deleted", "error"}

----------------------------------------------------------------------------
(* utils.py: sizing strings, as sequences of characters *)

Digits == {"0", "1", "2", "3", "4", "5", "6", "7", "8", "9"}

DigitVal(c) ==
    CASE c = "0" -> 0 [] c = "1" -> 1 [] c = "2" -> 2 [] c = "3" -> 3
      [] c = "4" -> 4 [] c = "5" -> 5 [] c = "6" -> 6 [] c = "7" -> 7
      [] c = "8" -> 8 [] c = "9" -> 9

Lower(c) ==
    CASE c = "M" -> "m" [] c = "G" -> "g" [] c = "B" -> "b" [] OTHER -> c

RECURSIVE SkipSpaces(_)
SkipSpaces(s) ==
    IF s # <<>> /\ Head(s) = " " THEN SkipSpaces(Tail(s)) ELSE s

RECURSIVE LeadingDigits(_)
LeadingDigits(s) ==
    IF s # <<>> /\ Head(s) \in Digits
    THEN <<Head(s)>> \o LeadingDigits(Tail(s))
    ELSE <<>>

RECURSIVE DropDigits(_)
DropDigits(s) ==
    IF s # <<>> /\ Head(s) \in Digits THEN DropDigits(Tail(s)) ELSE s

RECURSIVE ToInt(_, _)
ToInt(ds, acc) ==
    IF ds = <<>> THEN acc ELSE ToInt(Tail(ds), acc * 10 + DigitVal(Head(ds)))

LowerAll(s) == [i \in 1..Len(s) |-> Lower(s[i])]

\* The unit group of RAM_PATTERN followed by \s*$ : the matched unit, or
\* "nomatch" when the rest of the string is neither a unit nor blank.
RamUnit(rest) ==
    LET r == LowerAll(rest)
        Blank(t) == SkipSpaces(t) = <<>>
    IN  IF Len(r) >= 2 /\ SubSeq(r, 1, 2) = <<"m", "b">> /\ Blank(SubSeq(r, 3, Len(r)))
        THEN "mb"
        ELSE IF Len(r) >= 2 /\ SubSeq(r, 1, 2) = <<"g", "b">> /\ Blank(SubSeq(r, 3, Len(r)))
        THEN "gb"
        ELSE IF Len(r) >= 1 /\ r[1] = "m" /\ Blank(Tail(r))
        THEN "m"
        ELSE IF Len(r) >= 1 /\ r[1] = "g" /\ Blank(Tail(r))
        THEN "g"
        ELSE IF Blank(r) THEN "mb"
        ELSE "nomatch"

\* parse_ram_to_mb: the number of MB, or -1 for ValueError.
parse_ram_to_mb(value) ==
    LET s      == SkipSpaces(value)
        ds     == LeadingDigits(s)
        unit   == RamUnit(SkipSpaces(DropDigits(s)))
        amount == ToInt(ds, 0)
    IN  IF ds = <<>> \/ unit = "nomatch" THEN -1
        ELSE IF unit \in {"gb", "g"} THEN amount * 1024
        ELSE amount

\* parse_cpu_cores: the number of cores, or -1 for ValueError.
parse_cpu_cores(value) ==
    LET s     == SkipSpaces(value)
        ds    == LeadingDigits(s)
        cores == ToInt(ds, 0)
    IN  IF ds = <<>> \/ SkipSpaces(DropDigits(s)) # <<>> THEN -1
        ELSE IF cores <= 0 THEN -1
        ELSE cores

\* Region names, as sequences of characters over the letters of "de" and "us".
UpperOf == ("d" :> "D") @@ ("e" :> "E") @@ ("s" :> "S") @@ ("u" :> "U")
LowerOf == ("D" :> "d") @@ ("E" :> "e") @@ ("S" :> "s") @@ ("U" :> "u")

RECURSIVE StripRight(_)
StripRight(s) ==
    IF s # <<>> /\ s[Len(s)] = " " THEN StripRight(SubSeq(s, 1, Len(s) - 1)) ELSE s

\* str.title(): a letter that starts a word is upper-cased, any other letter
\* lower-cased.
Title(s) ==
    [i \in 1..Len(s) |->
        IF i = 1 \/ s[i - 1] \notin DOMAIN UpperOf \cup DOMAIN LowerOf
        THEN IF s[i] \in DOMAIN UpperOf THEN UpperOf[s[i]] ELSE s[i]
        ELSE IF s[i] \in DOMAIN LowerOf THEN LowerOf[s[i]] ELSE s[i]]

\* normalize_country: country.strip().title()
normalize_country(country) == Title(StripRight(SkipSpaces(country)))

\* The create requests a caller sends: <<template_id, ram, cpu>>.
Ram16GB == <<"1", "6", "G", "B">>
Cpu1 == <<" ", "1">>
CreateInputs ==
    { <<"t-001", Ram16GB, Cpu1>>,
      <<"t-001", <<"0">>, Cpu1>>,
      <<"t-001", <<"3", "1", " ", "g", "b">>, Cpu1>>,
      <<"t-404", Ram16GB, Cpu1>>,
      <<"t-001", <<"1", ".", "5", "g">>, Cpu1>>,
      <<"t-001", Ram16GB, <<"0">>>>,
      <<"t-001", Ram16GB, <<"1", "x">>>>,
      <<"t-001", Ram16GB, <<"4">>>> }

----------------------------------------------------------------------------
(* Repository *)

NoVmRow ==
    [status |-> "absent", ram_mb |-> 0, cpu_cores |-> 0, public_ip |-> None,
     network_id |-> 0, verification_status |-> "Secure",
     country |-> <<>>, created_at |-> 0]

\* StorageRepository.create_vm: the column defaults of MicroVMEntity.  created_at
\* is read off the ledger: the request that creates the VM row also appends
\* its create Operation.
\* The create requests of the lifecycle runs keep to one region, "us".
NewVmRow(ram_mb, cpu_cores) ==
    [status |-> "creating", ram_mb |-> ram_mb, cpu_cores |-> cpu_cores,
     public_ip |-> None, network_id |-> 0, verification_status |-> "Secure",
     country |-> normalize_country(<<"u", "s">>), created_at |-> Len(ops) + 1]

count_vms(statuses) == Cardinality({v \in DOMAIN vms : vms[v].status \in statuses})

RECURSIVE SumRam(_)
SumRam(S) ==
    IF S = {} THEN 0
    ELSE LET v == CHOOSE x \in S : TRUE IN vms[v].ram_mb + SumRam(S \ {v})

sum_vm_ram_mb(statuses) == SumRam({v \in DOMAIN vms : vms[v].status \in statuses})

\* StorageRepository.get_latest_operation: the id (ledger index) of the most
\* recently requested matching Operation, 0 when there is none.
get_latest_operation(resource_type, resource_id, operation, statuses) ==
    LET M == {i \in 1..Len(ops) :
                /\ ops[i].resource_type = resource_type
                /\ ops[i].resource_id = resource_id
                /\ ops[i].operation = operation
                /\ ops[i].status \in statuses}
    IN  IF M = {} THEN 0 ELSE CHOOSE i \in M : \A j \in M : j <= i

\* StorageRepository.create_operation.  Times are the Operation's own logical
\* clock: `updates` counts its status updates, and an update stamps the count
\* it reaches (datetime.utcnow() of that call); 0 stands for a NULL timestamp.
NewOp(resource_type, resource_id, operation, status, message) ==
    [resource_type |-> resource_type, resource_id |-> resource_id,
     operation |-> operation, status |-> status, message |-> message,
     updates |-> 0, started_at |-> 0, finished_at |-> 0]

\* The sequence `tunnels` is kept in updated_at order (the most recently
\* written row last), and a tunnel id is its creation number.

\* What a session holds of a row it loaded: the row, or Expired after a commit.
Expired == [expired |-> TRUE]

\* A background task: its position, its arguments (vm, tunnel), the rows its
\* session has loaded (seen_vm, seen_tunnel), and its locals (ip: vm_public_ip
\* or new_ip; rotation_failed and error: str(exc)).
NoTask ==
    [kind |-> "none", pc |-> "done", vm |-> None, tunnel |-> 0,
     seen_vm |-> Expired, seen_tunnel |-> Expired,
     ip |-> None, rotation_failed |-> FALSE, error |-> <<>>,
     job |-> None, attempt |-> 0, stage |-> 0]

NewTask(kind, vm, tunnel) ==
    [NoTask EXCEPT !.kind = kind, !.pc = "start", !.vm = vm, !.tunnel = tunnel]

\* Session attribute tracking: a column is part of the UPDATE when the row was
\* expired at the time of the assignment, or when the assigned value differs
\* from the loaded one.
Assign(row, seen, updates) ==
    [f \in DOMAIN row |->
        IF f \in DOMAIN updates /\ (seen = Expired \/ updates[f] # seen[f])
        THEN updates[f] ELSE row[f]]

\* StorageRepository.update_vm through a session that holds `seen`.
update_vm(v, seen, updates) == [vms EXCEPT ![v] = Assign(vms[v], seen, updates)]

TunnelIndex(id) == CHOOSE i \in 1..Len(tunnels) : tunnels[i].id = id

get_tunnel(id) == tunnels[TunnelIndex(id)]

Without(seq, i) == SubSeq(seq, 1, i - 1) \o SubSeq(seq, i + 1, Len(seq))

\* StorageRepository.update_tunnel: stamps updated_at, so the row becomes the
\* most recently written one.
update_tunnel(id, seen, updates) ==
    Append(Without(tunnels, TunnelIndex(id)), Assign(get_tunnel(id), seen, updates))

create_tunnel(public_ip, vm_id) ==
    Append(tunnels, [id |-> Len(tunnels) + 1, status |-> "Connected",
                     public_ip |-> public_ip, vm_id |-> vm_id])

\* find_connected_tunnel_by_country (one region): id of the most recently
\* written Connected tunnel, 0 when there is none.
find_connected_tunnel_by_country ==
    LET M == {i \in 1..Len(tunnels) : tunnels[i].status = "Connected"}
    IN  IF M = {} THEN 0 ELSE tunnels[CHOOSE i \in M : \A j \in M : j <= i].id

\* find_tunnel_for_vm: id of the most recently written tunnel of the VM.
find_tunnel_for_vm(v) ==
    LET M == {i \in 1..Len(tunnels) : tunnels[i].vm_id = v}
    IN  IF M = {} THEN 0 ELSE tunnels[CHOOSE i \in M : \A j \in M : j <= i].id

\* StorageRepository.update_operation_status
update_operation_status(i, status, message) ==
    LET op  == ops[i]
        now == op.updates + 1
    IN  [ops EXCEPT ![i] =
           [op EXCEPT !.status = status,
                      !.message = message,
                      !.updates = now,
                      !.started_at =
                          IF status = "running" THEN now
                          ELSE IF status \in {"succeeded", "failed"} /\ op.started_at = 0
                          THEN now ELSE @,
                      !.finished_at =
                          IF status \in {"succeeded", "failed"} THEN now ELSE @]]

\* `a or b` on optional strings
Or(a, b) == IF a # None THEN a ELSE b

\* generate_public_ip(vm_id): the address derived from the VM id; the address
\* a rotation yields is derived from VM id and tunnel id.
IpOfVm == "ip-vm"
IpOfRotation == "ip-rotated"

\* A scheduler job row; "absent" stands for no row with that id.
NoJobRow ==
    [status |-> "absent", vm_id |-> None, progress |-> 0, retry_count |-> 0,
     error_message |-> <<>>]

\* A stop request in service: its position in stop_vm, the VM row its session
\* loaded, and its response.
NoReq == [pc |-> "idle", vm |-> None, seen_vm |-> Expired, code |-> 0, op |-> 0]

\* The request being answered and its response: the HTTP status code and the
\* id of the Operation returned (0 when none).  NoRequest when no handler has a
\* response to return.
Response(kind, vm, code, op) == [kind |-> kind, vm |-> vm, code |-> code, op |-> op]

NoRequest == Response("none", None, 0, 0)

\* create_operation + background_tasks.add_task
Enqueue(op, task) ==
    /\ Len(ops) < MaxOps
    /\ ops' = Append(ops, op)
    /\ tasks' = Append(tasks, task)

----------------------------------------------------------------------------
(* SafeCommandRunner and InfrastructureAdapter *)

\* Settings: the values the process environment gives.  URLs are sequences of
\* characters, modes and transports are the strings as written in the
\* environment.
Settings(mode, transport, fallback, vm_url, proxy_url) ==
    [infra_execution_mode |-> mode, infra_transport |-> transport,
     infra_api_fallback_shell |-> fallback,
     vm_api_base_url |-> vm_url, proxy_api_base_url |-> proxy_url,
     vm_tap_prefix |-> <<"t", "a", "p", "-">>,
     vm_namespace_prefix |-> <<"n", "e", "t", "n", "s", "-">>]

DefaultSettings == Settings("mock", "shell", TRUE, <<>>, <<>>)

ALLOWED_COMMANDS == {"ansible-playbook", "bash", "firectl", "ip", "nft", "wg", "wg-quick"}
VALID_MODES == {"mock", "best_effort", "strict"}
VALID_TRANSPORTS == {"shell", "api", "auto"}

\* value.strip().lower() on the setting values of the runs.
StripLower(value) ==
    CASE value = " API" -> "api"
      [] value = "Strict " -> "strict"
      [] OTHER -> value

\* SafeCommandRunner.__init__: self.mode
RunnerMode(s) ==
    LET normalized_mode ==
            StripLower(IF s.infra_execution_mode # "" THEN s.infra_execution_mode ELSE "mock")
    IN  IF normalized_mode \in VALID_MODES THEN normalized_mode ELSE "mock"

\* InfrastructureAdapter.__init__: self.transport
AdapterTransport(s) ==
    LET normalized_transport ==
            StripLower(IF s.infra_transport # "" THEN s.infra_transport ELSE "shell")
    IN  IF normalized_transport \in VALID_TRANSPORTS THEN normalized_transport ELSE "shell"

\* A command is a sequence of parts; a part is None or a string, and a string
\* is kept as the sequence of its path segments.
NonePart == [none |-> TRUE, path |-> <<>>]
Part(path) == [none |-> FALSE, path |-> path]

\* Path(argv[0]).name: the last segment.
PathName(path) == IF path = <<>> THEN "" ELSE path[Len(path)]

CommandRun(command, simulated, returncode, note) ==
    [command |-> command, simulated |-> simulated, returncode |-> returncode, note |-> note]

NoRun == CommandRun(<<>>, FALSE, -1, "none")

\* What one call of SafeCommandRunner.run does: whether it raised, whether the
\* host was asked to execute the command, and the CommandRun it returned.
RunResult(command, raised, executed, run) ==
    [command |-> command, raised |-> raised, executed |-> executed, run |-> run]

\* What the host does with a command: the binary is missing from PATH,
\* subprocess.run raises, the command exits non-zero, or it succeeds.
HostOutcomes == {"ok", "missing", "nonzero", "exception"}

\* SafeCommandRunner._handle_issue
handle_issue(mode, command, argv, executed, returncode) ==
    IF mode = "strict"
    THEN RunResult(command, TRUE, executed, NoRun)
    ELSE RunResult(command, FALSE, executed, CommandRun(argv, TRUE, returncode, "fallback"))

\* A faulty variant of SafeCommandRunnerRun: mock mode answers before the
\* allowlist is consulted.
SafeCommandRunnerRun_MockFirst(mode, command, host) ==
    LET parts == SelectSeq(command, LAMBDA part : ~part.none)
        argv  == [i \in 1..Len(parts) |-> parts[i].path]
    IN  IF argv = <<>> THEN RunResult(command, TRUE, FALSE, NoRun)
        ELSE IF mode = "mock"
        THEN RunResult(command, FALSE, FALSE, CommandRun(argv, TRUE, 0, "mode=mock"))
        ELSE IF PathName(argv[1]) \notin ALLOWED_COMMANDS
        THEN RunResult(command, TRUE, FALSE, NoRun)
        ELSE IF host = "missing" THEN handle_issue(mode, command, argv, FALSE, 1)
        ELSE IF host = "exception" THEN handle_issue(mode, command, argv, TRUE, 1)
        ELSE IF host = "nonzero" THEN handle_issue(mode, command, argv, TRUE, 2)
        ELSE RunResult(command, FALSE, TRUE, CommandRun(argv, FALSE, 0, "none"))

\* SafeCommandRunner.run
SafeCommandRunnerRun(mode, command, host) ==
    LET parts == SelectSeq(command, LAMBDA part : ~part.none)
        argv  == [i \in 1..Len(parts) |-> parts[i].path]
    IN  IF argv = <<>> THEN RunResult(command, TRUE, FALSE, NoRun)
        ELSE IF PathName(argv[1]) \notin ALLOWED_COMMANDS
        THEN RunResult(command, TRUE, FALSE, NoRun)
        ELSE IF mode = "mock"
        THEN RunResult(command, FALSE, FALSE, CommandRun(argv, TRUE, 0, "mode=mock"))
        ELSE IF host = "missing" THEN handle_issue(mode, command, argv, FALSE, 1)
        ELSE IF host = "exception" THEN handle_issue(mode, command, argv, TRUE, 1)
        ELSE IF host = "nonzero" THEN handle_issue(mode, command, argv, TRUE, 2)
        ELSE RunResult(command, FALSE, TRUE, CommandRun(argv, FALSE, 0, "none"))

\* The runner.run calls of one operation, in order, up to the first that
\* raises.  host gives the host's outcome for each binary.
RECURSIVE RunAll(_, _, _)
RunAll(mode, commands, host) ==
    IF commands = <<>> THEN <<>>
    ELSE LET r == SafeCommandRunnerRun(mode, Head(commands), host[Head(commands)[1].path[1]])
         IN  IF r.raised THEN <<r>> ELSE <<r>> \o RunAll(mode, Tail(commands), host)

\* InfrastructureAdapter._api_base_url
api_base_url(s, service) ==
    StripRight(SkipSpaces(IF service = "vm" THEN s.vm_api_base_url ELSE s.proxy_api_base_url))

\* InfrastructureAdapter._should_try_api: "yes", "no", or "raise".
should_try_api(s, service) ==
    IF AdapterTransport(s) = "shell" THEN "no"
    ELSE IF api_base_url(s, service) # <<>> THEN "yes"
    ELSE IF AdapterTransport(s) = "api" THEN "raise"
    ELSE "no"

\* A faulty variant of allow_shell_fallback: the runner mode is not consulted.
allow_shell_fallback_IgnoresMode(s) ==
    IF AdapterTransport(s) = "shell" THEN TRUE
    ELSE s.infra_api_fallback_shell

\* InfrastructureAdapter._allow_shell_fallback
allow_shell_fallback(s) ==
    IF AdapterTransport(s) = "shell" THEN TRUE
    ELSE IF RunnerMode(s) = "strict" THEN FALSE
    ELSE s.infra_api_fallback_shell

\* The CommandRun that _api_call returns, and the one _api_failure_run makes.
api_run(service, endpoint) ==
    CommandRun(<<<<IF service = "vm" THEN "api:vm" ELSE "api:proxy">>, <<endpoint>>>>,
               FALSE, 0, "payload_bytes")

api_failure_run(service, endpoint) ==
    CommandRun(<<<<IF service = "vm" THEN "api:vm" ELSE "api:proxy">>, <<endpoint>>>>,
               TRUE, 1, "fallback")

\* What the remote API answers: success, an error, or the HTTP 400 of a
\* country without a proxy profile.
ApiReplies == {"ok", "error", "country_config"}

\* Whether the launch, stop, ... script exists, and whether it lies inside the
\* repository.
ScriptStates == {"absent", "present", "outside"}

\* What one adapter operation did: the input passed validation or not, the
\* API calls made and the replies received, whether the script was looked up,
\* the runner.run calls made, and the command runs returned (none when the
\* operation raised).
Outcome(op, service, valid, raised, api, replies, script, local, command_runs) ==
    [op |-> op, service |-> service, valid |-> valid, raised |-> raised, api |-> api,
     replies |-> replies, script |-> script, local |-> local, command_runs |-> command_runs]

NoCall == Outcome("none", "none", TRUE, FALSE, <<>>, <<>>, "unchecked", <<>>, <<>>)

\* The runner.run calls an operation makes when no script exists.
AdapterCommands(op) ==
    LET ansible == <<Part(<<"ansible-playbook">>), Part(<<"playbook">>)>>
        ip      == <<Part(<<"ip">>), Part(<<"args">>)>>
        firectl == <<Part(<<"firectl">>), Part(<<"args">>)>>
        wg      == <<Part(<<"wg">>), Part(<<"show">>)>>
        nft     == <<Part(<<"nft">>), Part(<<"list">>)>>
    IN  CASE op = "provision_vm" -> <<ansible, ip, ip, ip, firectl>>
          [] op \in {"stop_vm", "restart_vm"} -> <<ansible>>
          [] op = "delete_vm" -> <<ansible, ip, ip>>
          [] op \in {"rotate_tunnel", "register_vps"} -> <<ansible, wg>>
          [] op = "collect_security_snapshot" -> <<ip, ip, nft>>

\* _run_script_if_available followed by the operation's own commands when no
\* script exists; collect_security_snapshot looks for no script.
LocalPath(s, op, service, api, replies, fallback_runs, script, host) ==
    LET script_checked == op # "collect_security_snapshot" IN
    IF script_checked /\ script = "outside"
    THEN Outcome(op, service, TRUE, TRUE, api, replies, script, <<>>, <<>>)
    ELSE LET to_run  == IF script_checked /\ script = "present"
                        THEN <<<<Part(<<"bash">>), Part(<<"script">>)>>>>
                        ELSE AdapterCommands(op)
             results == RunAll(RunnerMode(s), to_run, host)
             seen    == IF script_checked THEN script ELSE "unchecked"
         IN  IF results[Len(results)].raised
             THEN Outcome(op, service, TRUE, TRUE, api, replies, seen, results, <<>>)
             ELSE Outcome(op, service, TRUE, FALSE, api, replies, seen, results,
                          fallback_runs \o [i \in 1..Len(results) |-> results[i].run])

\* The body shared by the adapter operations: input validation, the API
\* attempt (with rotate_tunnel's second attempt for country "us"), the
\* fallback decision, and the local commands.
AdapterOperation(s, op, service, endpoint, valid, retry_us, reply, reply2, script, host) ==
    LET call    == [service |-> service, endpoint |-> endpoint]
        retried == retry_us /\ reply = "country_config"
        api     == IF retried THEN <<call, call>> ELSE <<call>>
        replies == IF retried THEN <<reply, reply2>> ELSE <<reply>>
    IN  IF ~valid
        THEN Outcome(op, service, FALSE, TRUE, <<>>, <<>>, "unchecked", <<>>, <<>>)
        ELSE IF should_try_api(s, service) = "raise"
        THEN Outcome(op, service, TRUE, TRUE, <<>>, <<>>, "unchecked", <<>>, <<>>)
        ELSE IF should_try_api(s, service) = "no"
        THEN LocalPath(s, op, service, <<>>, <<>>, <<>>, script, host)
        ELSE IF reply = "ok"
        THEN Outcome(op, service, TRUE, FALSE, api, replies, "unchecked", <<>>,
                     <<api_run(service, endpoint)>>)
        ELSE IF retried /\ reply2 = "ok"
        THEN Outcome(op, service, TRUE, FALSE, api, replies, "unchecked", <<>>,
                     <<api_failure_run(service, endpoint), api_run(service, endpoint)>>)
        ELSE IF ~allow_shell_fallback(s)
        THEN Outcome(op, service, TRUE, TRUE, api, replies, "unchecked", <<>>, <<>>)
        ELSE LocalPath(s, op, service, api, replies, <<api_failure_run(service, endpoint)>>,
                       script, host)

\* The host's outcome for each binary an operation names: one per binary, or
\* no binary found, or every launch failing.
HostStates(binaries) ==
    [binaries -> {"ok", "nonzero"}]
       \cup {[b \in binaries |-> o] : o \in {"missing", "exception"}}

AdapterUntouched == UNCHANGED <<vms, tunnels, ops, tasks, guardrails, last, jobs, reqs, settings>>

\* A caller runs one command through the runner.
RunCommand(command, host) ==
    /\ infra = NoCall
    /\ LET r == SafeCommandRunnerRun(RunnerMode(settings), command, host) IN
         infra' = Outcome("run", "none", TRUE, r.raised, <<>>, <<>>, "unchecked", <<r>>,
                          IF r.raised THEN <<>> ELSE <<r.run>>)
    /\ AdapterUntouched

ProvisionVm(valid, reply, script, host) ==
    /\ infra = NoCall
    /\ infra' = AdapterOperation(settings, "provision_vm", "vm", "/v1/vms/create", valid, FALSE,
                                 reply, reply, script, host)
    /\ AdapterUntouched

AdapterStopVm(valid, reply, script, host) ==
    /\ infra = NoCall
    /\ infra' = AdapterOperation(settings, "stop_vm", "vm", "/v1/vms/stop", valid, FALSE,
                                 reply, reply, script, host)
    /\ AdapterUntouched

AdapterRestartVm(valid, reply, script, host) ==
    /\ infra = NoCall
    /\ infra' = AdapterOperation(settings, "restart_vm", "vm", "/v1/vms/restart", valid, FALSE,
                                 reply, reply, script, host)
    /\ AdapterUntouched

AdapterDeleteVm(valid, reply, script, host) ==
    /\ infra = NoCall
    /\ infra' = AdapterOperation(settings, "delete_vm", "vm", "/v1/vms/delete", valid, FALSE,
                                 reply, reply, script, host)
    /\ AdapterUntouched

\* rotate_tunnel; us is TRUE when the country asked for is "us" or "usa".
RotateTunnel(valid, us, reply, reply2, script, host) ==
    /\ infra = NoCall
    /\ infra' = AdapterOperation(settings, "rotate_tunnel", "proxy", "/v1/proxy/rotate", valid, ~us,
                                 reply, reply2, script, host)
    /\ AdapterUntouched

RegisterVps(valid, reply, script, host) ==
    /\ infra = NoCall
    /\ infra' = AdapterOperation(settings, "register_vps", "proxy", "/v1/proxy/register", valid,
                                 FALSE, reply, reply, script, host)
    /\ AdapterUntouched

CollectSecuritySnapshot(reply, host) ==
    /\ infra = NoCall
    /\ infra' = AdapterOperation(settings, "collect_security_snapshot", "proxy",
                                 "/v1/proxy/security/snapshot", TRUE, FALSE,
                                 reply, reply, "absent", host)
    /\ AdapterUntouched

----------------------------------------------------------------------------
Init ==
    /\ vms = [v \in VmIds |-> NoVmRow]
    /\ tunnels = <<>>
    /\ ops = <<>>
    /\ tasks = <<>>
    /\ guardrails = [max_vms |-> GuardMaxVms, min_host_ram_mb |-> SeedMinHostRamMb,
                     max_cpu_per_vm |-> SeedMaxCpuPerVm, overload_prevention |-> TRUE]
    /\ last = NoRequest
    /\ jobs = [j \in JobIds |-> NoJobRow]
    /\ reqs = [c \in Callers |-> NoReq]
    /\ settings = DefaultSettings
    /\ infra = NoCall

----------------------------------------------------------------------------
(* OrchestratorService: request handlers *)

\* A faulty variant of CreateVmCheck: only a VM in an active state counts as a duplicate.
CreateVmCheck_ActiveOnly(v, tpl, ram, cpu) ==
    LET ram_mb            == parse_ram_to_mb(ram)
        cpu_cores         == parse_cpu_cores(cpu)
        active_vms        == count_vms(ACTIVE_VM_STATES)
        used_ram_mb       == sum_vm_ram_mb(ACTIVE_VM_STATES)
        free_after_create == host_total_ram_mb - (used_ram_mb + ram_mb)
    IN  IF vms[v].status \in ACTIVE_VM_STATES THEN <<409, "duplicate">>
        ELSE IF tpl \notin Templates THEN <<404, "template">>
        ELSE IF ram_mb = -1 \/ cpu_cores = -1 THEN <<400, "sizing">>
        ELSE IF active_vms >= guardrails.max_vms THEN <<409, "max_vms">>
        ELSE IF cpu_cores > guardrails.max_cpu_per_vm THEN <<400, "max_cpu_per_vm">>
        ELSE IF guardrails.overload_prevention
                /\ free_after_create < guardrails.min_host_ram_mb
        THEN <<409, "host_ram">>
        ELSE IF vms[v].status = "deleted" THEN <<500, "integrity">>
        ELSE <<200, "accepted">>

\* The first synchronous check of create_vm that rejects the request, as
\* <<HTTP code, check>>; <<200, "accepted">> when every check passes.
CreateVmCheck(v, tpl, ram, cpu) ==
    LET ram_mb            == parse_ram_to_mb(ram)
        cpu_cores         == parse_cpu_cores(cpu)
        active_vms        == count_vms(ACTIVE_VM_STATES)
        used_ram_mb       == sum_vm_ram_mb(ACTIVE_VM_STATES)
        free_after_create == host_total_ram_mb - (used_ram_mb + ram_mb)
    IN  IF vms[v].status \notin {"absent", "deleted"} THEN <<409, "duplicate">>
        ELSE IF tpl \notin Templates THEN <<404, "template">>
        ELSE IF ram_mb = -1 \/ cpu_cores = -1 THEN <<400, "sizing">>
        ELSE IF active_vms >= guardrails.max_vms THEN <<409, "max_vms">>
        ELSE IF cpu_cores > guardrails.max_cpu_per_vm THEN <<400, "max_cpu_per_vm">>
        ELSE IF guardrails.overload_prevention
                /\ free_after_create < guardrails.min_host_ram_mb
        THEN <<409, "host_ram">>
        \* the INSERT of a second row with the primary key of the deleted row
        ELSE IF vms[v].status = "deleted" THEN <<500, "integrity">>
        ELSE <<200, "accepted">>

\* A faulty variant of CreateVm: a rejected request is recorded as a failed Operation.
CreateVm_RecordsRejection(v, tpl, ram, cpu) ==
    /\ last = NoRequest
    /\ LET check == CreateVmCheck(v, tpl, ram, cpu)
           resp(op) == Response("create_vm", v, check[1], op)
       IN  IF check[1] = 200
           THEN /\ vms' = [vms EXCEPT ![v] = NewVmRow(parse_ram_to_mb(ram), parse_cpu_cores(cpu))]
                /\ Enqueue(NewOp("vm", v, "create", "pending", <<"VM creation queued.">>),
                           NewTask("create", v, 0))
                /\ last' = resp(Len(ops) + 1)
                /\ UNCHANGED <<tunnels, guardrails>>
           ELSE /\ Enqueue(NewOp("vm", v, "create", "failed", <<check[2]>>), NoTask)
                /\ last' = resp(0)
                /\ UNCHANGED <<vms, tunnels, guardrails>>
    /\ UNCHANGED <<jobs, reqs, settings, infra>>

CreateVm(v, tpl, ram, cpu) ==
    /\ last = NoRequest
    /\ LET check == CreateVmCheck(v, tpl, ram, cpu)
           resp(op) == Response("create_vm", v, check[1], op)
       IN  IF check[1] = 200
           THEN /\ vms' = [vms EXCEPT ![v] = NewVmRow(parse_ram_to_mb(ram), parse_cpu_cores(cpu))]
                /\ Enqueue(NewOp("vm", v, "create", "pending", <<"VM creation queued.">>),
                           NewTask("create", v, 0))
                /\ last' = resp(Len(ops) + 1)
                /\ UNCHANGED <<tunnels, guardrails>>
           ELSE /\ last' = resp(0)
                /\ UNCHANGED <<vms, tunnels, ops, tasks, guardrails>>
    /\ UNCHANGED <<jobs, reqs, settings, infra>>

StopVm(v) ==
    /\ last = NoRequest
    /\ LET status    == vms[v].status
           in_flight == get_latest_operation("vm", v, "stop", IN_FLIGHT)
       IN  IF status \in {"absent", "deleted"}
           THEN /\ last' = Response("stop_vm", v, 404, 0)
                /\ UNCHANGED <<vms, tunnels, ops, tasks, guardrails>>
           ELSE IF status = "stopped"
           THEN /\ Enqueue(NewOp("vm", v, "stop", "succeeded", <<"VM already stopped.">>), NoTask)
                /\ last' = Response("stop_vm", v, 200, Len(ops) + 1)
                /\ UNCHANGED <<vms, tunnels, guardrails>>
           ELSE IF status \notin STOPPABLE_VM_STATES
           THEN /\ last' = Response("stop_vm", v, 409, 0)
                /\ UNCHANGED <<vms, tunnels, ops, tasks, guardrails>>
           ELSE IF in_flight # 0
           THEN /\ last' = Response("stop_vm", v, 200, in_flight)
                /\ UNCHANGED <<vms, tunnels, ops, tasks, guardrails>>
           ELSE /\ vms' = [vms EXCEPT ![v].status = "stopping"]
                /\ Enqueue(NewOp("vm", v, "stop", "pending", <<"Stop queued.">>),
                           NewTask("stop", v, 0))
                /\ last' = Response("stop_vm", v, 200, Len(ops) + 1)
                /\ UNCHANGED <<tunnels, guardrails>>
    /\ UNCHANGED <<jobs, reqs, settings, infra>>

\* A faulty variant of RestartVm: no check of the legal source states.
RestartVm_NoSourceCheck(v) ==
    /\ last = NoRequest
    /\ LET status    == vms[v].status
           in_flight == get_latest_operation("vm", v, "restart", IN_FLIGHT)
       IN  IF status \in {"absent", "deleted"}
           THEN /\ last' = Response("restart_vm", v, 404, 0)
                /\ UNCHANGED <<vms, tunnels, ops, tasks, guardrails>>
           ELSE IF in_flight # 0
           THEN /\ last' = Response("restart_vm", v, 200, in_flight)
                /\ UNCHANGED <<vms, tunnels, ops, tasks, guardrails>>
           ELSE /\ vms' = [vms EXCEPT ![v].status = "restarting"]
                /\ Enqueue(NewOp("vm", v, "restart", "pending", <<"Restart queued.">>),
                           NewTask("restart", v, 0))
                /\ last' = Response("restart_vm", v, 200, Len(ops) + 1)
                /\ UNCHANGED <<tunnels, guardrails>>
    /\ UNCHANGED <<jobs, reqs, settings, infra>>

RestartVm(v) ==
    /\ last = NoRequest
    /\ LET status    == vms[v].status
           in_flight == get_latest_operation("vm", v, "restart", IN_FLIGHT)
       IN  IF status \in {"absent", "deleted"}
           THEN /\ last' = Response("restart_vm", v, 404, 0)
                /\ UNCHANGED <<vms, tunnels, ops, tasks, guardrails>>
           ELSE IF status \notin RESTARTABLE_VM_STATES
           THEN /\ last' = Response("restart_vm", v, 409, 0)
                /\ UNCHANGED <<vms, tunnels, ops, tasks, guardrails>>
           ELSE IF in_flight # 0
           THEN /\ last' = Response("restart_vm", v, 200, in_flight)
                /\ UNCHANGED <<vms, tunnels, ops, tasks, guardrails>>
           ELSE /\ vms' = [vms EXCEPT ![v].status = "restarting"]
                /\ Enqueue(NewOp("vm", v, "restart", "pending", <<"Restart queued.">>),
                           NewTask("restart", v, 0))
                /\ last' = Response("restart_vm", v, 200, Len(ops) + 1)
                /\ UNCHANGED <<tunnels, guardrails>>
    /\ UNCHANGED <<jobs, reqs, settings, infra>>

\* A faulty variant of DeleteVm: a deleted VM is answered NotFound, as stop_vm does.
DeleteVm_DeletedNotFound(v) ==
    /\ last = NoRequest
    /\ LET status    == vms[v].status
           in_flight == get_latest_operation("vm", v, "delete", IN_FLIGHT)
       IN  IF status \in {"absent", "deleted"}
           THEN /\ last' = Response("delete_vm", v, 404, 0)
                /\ UNCHANGED <<vms, tunnels, ops, tasks, guardrails>>
           ELSE IF status \notin DELETABLE_VM_STATES
           THEN /\ last' = Response("delete_vm", v, 409, 0)
                /\ UNCHANGED <<vms, tunnels, ops, tasks, guardrails>>
           ELSE IF in_flight # 0
           THEN /\ last' = Response("delete_vm", v, 200, in_flight)
                /\ UNCHANGED <<vms, tunnels, ops, tasks, guardrails>>
           ELSE /\ vms' = [vms EXCEPT ![v].status = "deleting"]
                /\ Enqueue(NewOp("vm", v, "delete", "pending", <<"Delete queued.">>),
                           NewTask("delete", v, 0))
                /\ last' = Response("delete_vm", v, 200, Len(ops) + 1)
                /\ UNCHANGED <<tunnels, guardrails>>
    /\ UNCHANGED <<jobs, reqs, settings, infra>>

DeleteVm(v) ==
    /\ last = NoRequest
    /\ LET status    == vms[v].status
           in_flight == get_latest_operation("vm", v, "delete", IN_FLIGHT)
       IN  IF status = "absent"
           THEN /\ last' = Response("delete_vm", v, 404, 0)
                /\ UNCHANGED <<vms, tunnels, ops, tasks, guardrails>>
           ELSE IF status = "deleted"
           THEN /\ Enqueue(NewOp("vm", v, "delete", "succeeded", <<"VM already deleted.">>), NoTask)
                /\ last' = Response("delete_vm", v, 200, Len(ops) + 1)
                /\ UNCHANGED <<vms, tunnels, guardrails>>
           ELSE IF status \notin DELETABLE_VM_STATES
           THEN /\ last' = Response("delete_vm", v, 409, 0)
                /\ UNCHANGED <<vms, tunnels, ops, tasks, guardrails>>
           ELSE IF in_flight # 0
           THEN /\ last' = Response("delete_vm", v, 200, in_flight)
                /\ UNCHANGED <<vms, tunnels, ops, tasks, guardrails>>
           ELSE /\ vms' = [vms EXCEPT ![v].status = "deleting"]
                /\ Enqueue(NewOp("vm", v, "delete", "pending", <<"Delete queued.">>),
                           NewTask("delete", v, 0))
                /\ last' = Response("delete_vm", v, 200, Len(ops) + 1)
                /\ UNCHANGED <<tunnels, guardrails>>
    /\ UNCHANGED <<jobs, reqs, settings, infra>>

----------------------------------------------------------------------------
(* NetworkService.rotate_ip and GovernanceService.sync_fingerprint *)

RotateIp(v) ==
    /\ last = NoRequest
    /\ LET own       == find_tunnel_for_vm(v)
           connected == find_connected_tunnel_by_country
           tunnels1  == IF own # 0 THEN tunnels
                        ELSE IF connected = 0 THEN create_tunnel(vms[v].public_ip, v)
                        ELSE update_tunnel(connected, get_tunnel(connected), [vm_id |-> v])
           tunnel_id == IF own # 0 THEN own
                        ELSE IF connected = 0 THEN Len(tunnels) + 1
                        ELSE connected
           in_flight == get_latest_operation("tunnel", tunnel_id, "rotate", IN_FLIGHT)
       IN  IF vms[v].status \in {"absent", "deleted"}
           THEN /\ last' = Response("rotate_ip", v, 404, 0)
                /\ UNCHANGED <<vms, tunnels, ops, tasks, guardrails>>
           ELSE IF in_flight # 0
           THEN /\ tunnels' = tunnels1
                /\ last' = Response("rotate_ip", v, 200, in_flight)
                /\ UNCHANGED <<vms, ops, tasks, guardrails>>
           ELSE /\ tunnels' = tunnels1
                /\ Enqueue(NewOp("tunnel", tunnel_id, "rotate", "pending", <<"IP rotation queued.">>),
                           NewTask("rotate", v, tunnel_id))
                /\ last' = Response("rotate_ip", v, 200, Len(ops) + 1)
                /\ UNCHANGED <<vms, guardrails>>
    /\ UNCHANGED <<jobs, reqs, settings, infra>>

SyncFingerprint(v) ==
    /\ last = NoRequest
    /\ LET in_flight == get_latest_operation("fingerprint", v, "sync", IN_FLIGHT)
       IN  IF vms[v].status \in {"absent", "deleted"}
           THEN /\ last' = Response("sync_fingerprint", v, 404, 0)
                /\ UNCHANGED <<vms, tunnels, ops, tasks, guardrails>>
           ELSE IF in_flight # 0
           THEN /\ last' = Response("sync_fingerprint", v, 200, in_flight)
                /\ UNCHANGED <<vms, tunnels, ops, tasks, guardrails>>
           ELSE /\ Enqueue(NewOp("fingerprint", v, "sync", "pending", <<"Fingerprint sync queued.">>),
                           NewTask("sync", v, 0))
                /\ last' = Response("sync_fingerprint", v, 200, Len(ops) + 1)
                /\ UNCHANGED <<vms, tunnels, guardrails>>
    /\ UNCHANGED <<jobs, reqs, settings, infra>>

----------------------------------------------------------------------------
(* Background tasks.  Task i belongs to Operation i. *)

\* str(exc) of an adapter failure
AdapterError == <<"adapter failed">>

TaskAt(i, kinds, pc) ==
    /\ last = NoRequest
    /\ i \in 1..Len(tasks)
    /\ tasks[i].kind \in kinds
    /\ tasks[i].pc = pc

\* Every task kind: update_operation_status(running), then load the VM row
\* (and, for a rotation, the tunnel row) into the task's session.  The
\* fingerprint task loads its row when it writes it.
TaskStart(i) ==
    /\ TaskAt(i, {"create", "stop", "restart", "delete", "rotate", "sync"}, "start")
    /\ LET t == tasks[i] IN
         /\ ops' = update_operation_status(i, "running", <<"In progress.">>)
         /\ tasks' = [tasks EXCEPT ![i].pc = IF t.kind = "sync" THEN "commit_vm" ELSE "adapter",
                                    ![i].seen_vm = IF t.kind = "sync" THEN Expired ELSE vms[t.vm],
                                    ![i].seen_tunnel =
                                        IF t.kind = "rotate" THEN get_tunnel(t.tunnel) ELSE Expired]
    /\ last' = NoRequest
    /\ UNCHANGED <<vms, tunnels, guardrails>>
    /\ UNCHANGED <<jobs, reqs, settings, infra>>

\* The except branch of the VM tasks: get_vm returns the row the session
\* already holds, then update_vm(status="error").
MarkError(t, updates) ==
    IF t.seen_vm.status # "deleted"
    THEN update_vm(t.vm, t.seen_vm, updates)
    ELSE vms

\* _run_vm_create_task: adapter.provision_vm returns or raises; on return the
\* region's tunnel is attached or minted, and adapter.rotate_tunnel is called
\* with the tunnel row as the session then loads it.
CreateTaskProvision(i, ok) ==
    /\ TaskAt(i, {"create"}, "adapter")
    /\ LET t         == tasks[i]
           connected == find_connected_tunnel_by_country
       IN  IF ok
           THEN /\ tunnels' =
                     IF connected = 0
                     THEN create_tunnel(IpOfVm, t.vm)
                     ELSE update_tunnel(connected, get_tunnel(connected),
                            [vm_id |-> t.vm, status |-> "Connected",
                             public_ip |-> Or(get_tunnel(connected).public_ip, IpOfVm)])
                /\ ops' = update_operation_status(i, "running", <<"Applying tunnel profile.">>)
                /\ tasks' = [tasks EXCEPT ![i].pc = "rotate", ![i].ip = IpOfVm,
                                ![i].tunnel = IF connected = 0 THEN Len(tunnels) + 1 ELSE connected,
                                ![i].seen_vm = Expired,
                                ![i].seen_tunnel = tunnels'[Len(tunnels')]]
                /\ UNCHANGED vms
           ELSE /\ vms' = MarkError(t, [status |-> "error", verification_status |-> "Warning"])
                /\ tasks' = [tasks EXCEPT ![i].pc = "fail", ![i].error = AdapterError]
                /\ UNCHANGED <<tunnels, ops>>
    /\ last' = NoRequest
    /\ UNCHANGED guardrails
    /\ UNCHANGED <<jobs, reqs, settings, infra>>

\* A faulty variant of CreateTaskRotate: a rotation failure takes the except branch of
\* the task, as a provisioning failure does.
CreateTaskRotate_Fatal(i, ok) ==
    /\ TaskAt(i, {"create"}, "rotate")
    /\ LET t == tasks[i] IN
         IF ok
         THEN /\ tunnels' = update_tunnel(t.tunnel, Expired,
                               [public_ip |-> IpOfRotation, status |-> "Connected", vm_id |-> t.vm])
              /\ tasks' = [tasks EXCEPT ![i].pc = "commit_vm", ![i].ip = IpOfRotation,
                                         ![i].seen_tunnel = Expired]
              /\ UNCHANGED vms
         ELSE /\ vms' = update_vm(t.vm, Expired,
                           [status |-> "error", verification_status |-> "Warning"])
              /\ tasks' = [tasks EXCEPT ![i].pc = "fail", ![i].rotation_failed = TRUE,
                                         ![i].error = AdapterError]
              /\ UNCHANGED tunnels
    /\ last' = NoRequest
    /\ UNCHANGED <<ops, guardrails>>
    /\ UNCHANGED <<jobs, reqs, settings, infra>>

\* adapter.rotate_tunnel returns or raises; either way the tunnel is written
\* and the task goes on.
CreateTaskRotate(i, ok) ==
    /\ TaskAt(i, {"create"}, "rotate")
    /\ LET t == tasks[i] IN
         IF ok
         THEN /\ tunnels' = update_tunnel(t.tunnel, Expired,
                               [public_ip |-> IpOfRotation, status |-> "Connected", vm_id |-> t.vm])
              /\ tasks' = [tasks EXCEPT ![i].pc = "commit_vm", ![i].ip = IpOfRotation,
                                         ![i].seen_tunnel = Expired]
         ELSE /\ tunnels' = update_tunnel(t.tunnel, t.seen_tunnel,
                               [public_ip |-> Or(t.seen_tunnel.public_ip, t.ip),
                                status |-> "Connected", vm_id |-> t.vm])
              /\ tasks' = [tasks EXCEPT ![i].pc = "commit_vm", ![i].rotation_failed = TRUE,
                                         ![i].error = AdapterError, ![i].seen_tunnel = Expired]
    /\ last' = NoRequest
    /\ UNCHANGED <<vms, ops, guardrails>>
    /\ UNCHANGED <<jobs, reqs, settings, infra>>

\* update_vm(status="running", ...) of the create task, update_vm(public_ip,
\* network_id, verification_status) of the rotation task, and
\* update_vm(verification_status="Secure") of the fingerprint task.
TaskCommitVm(i) ==
    /\ TaskAt(i, {"create", "rotate", "sync"}, "commit_vm")
    /\ LET t == tasks[i] IN
         vms' = CASE t.kind = "create" ->
                       update_vm(t.vm, Expired,
                         [status |-> "running", public_ip |-> t.ip, network_id |-> t.tunnel,
                          verification_status |->
                              IF t.rotation_failed THEN "Warning" ELSE "Secure"])
                  [] t.kind = "rotate" ->
                       update_vm(t.vm, Expired,
                         [public_ip |-> t.ip, network_id |-> t.tunnel,
                          verification_status |-> "Secure"])
                  [] t.kind = "sync" ->
                       update_vm(t.vm, vms[t.vm], [verification_status |-> "Secure"])
    /\ tasks' = [tasks EXCEPT ![i].pc = "finish"]
    /\ last' = NoRequest
    /\ UNCHANGED <<tunnels, ops, guardrails>>
    /\ UNCHANGED <<jobs, reqs, settings, infra>>

\* The success message of each task kind.
SuccessMessage(t) ==
    IF t.kind = "create" /\ t.error # <<>>
    THEN <<"VM is running.", "Tunnel rotation deferred:">> \o t.error
    ELSE <<"Done.">>

TaskFinish(i) ==
    /\ TaskAt(i, {"create", "stop", "restart", "delete", "rotate", "sync"}, "finish")
    /\ ops' = update_operation_status(i, "succeeded", SuccessMessage(tasks[i]))
    /\ tasks' = [tasks EXCEPT ![i].pc = "done"]
    /\ last' = NoRequest
    /\ UNCHANGED <<vms, tunnels, guardrails>>
    /\ UNCHANGED <<jobs, reqs, settings, infra>>

\* A faulty variant of TaskFail: the task ends without recording the failure.
TaskFail_Unrecorded(i) ==
    /\ TaskAt(i, {"create", "stop", "restart", "delete", "rotate"}, "fail")
    /\ tasks' = [tasks EXCEPT ![i].pc = "done"]
    /\ last' = NoRequest
    /\ UNCHANGED <<vms, tunnels, ops, guardrails>>
    /\ UNCHANGED <<jobs, reqs, settings, infra>>

TaskFail(i) ==
    /\ TaskAt(i, {"create", "stop", "restart", "delete", "rotate"}, "fail")
    /\ ops' = update_operation_status(i, "failed", tasks[i].error)
    /\ tasks' = [tasks EXCEPT ![i].pc = "done"]
    /\ last' = NoRequest
    /\ UNCHANGED <<vms, tunnels, guardrails>>
    /\ UNCHANGED <<jobs, reqs, settings, infra>>

\* _run_vm_action_task: the adapter call returns or raises, then the VM row
\* is written through the session that loaded it at the start.
ActionTaskAct(i, ok) ==
    /\ TaskAt(i, {"stop", "restart", "delete"}, "adapter")
    /\ LET t == tasks[i] IN
         IF ~ok
         THEN /\ vms' = MarkError(t, [status |-> "error"])
              /\ tasks' = [tasks EXCEPT ![i].pc = "fail", ![i].error = AdapterError]
         ELSE /\ vms' = CASE t.kind = "stop" ->
                              update_vm(t.vm, t.seen_vm, [status |-> "stopped"])
                         [] t.kind = "restart" ->
                              update_vm(t.vm, t.seen_vm,
                                [status |-> "running",
                                 public_ip |-> Or(t.seen_vm.public_ip, IpOfVm),
                                 verification_status |-> "Secure"])
                         [] t.kind = "delete" ->
                              update_vm(t.vm, t.seen_vm,
                                [status |-> "deleted", public_ip |-> None,
                                 network_id |-> 0, verification_status |-> "None"])
              /\ tasks' = [tasks EXCEPT
                             ![i].pc = IF t.kind = "delete" /\ t.seen_vm.network_id # 0
                                       THEN "detach" ELSE "finish",
                             ![i].tunnel = t.seen_vm.network_id]
    /\ last' = NoRequest
    /\ UNCHANGED <<tunnels, ops, guardrails>>
    /\ UNCHANGED <<jobs, reqs, settings, infra>>

\* delete: the tunnel the VM row named is detached when it still belongs to
\* the VM.
DeleteTaskDetach(i) ==
    /\ TaskAt(i, {"delete"}, "detach")
    /\ LET t == tasks[i] IN
         tunnels' = IF get_tunnel(t.tunnel).vm_id = t.vm
                    THEN update_tunnel(t.tunnel, get_tunnel(t.tunnel),
                           [vm_id |-> None, status |-> "Disconnected"])
                    ELSE tunnels
    /\ tasks' = [tasks EXCEPT ![i].pc = "finish"]
    /\ last' = NoRequest
    /\ UNCHANGED <<vms, ops, guardrails>>
    /\ UNCHANGED <<jobs, reqs, settings, infra>>

\* _run_rotation_task: adapter.rotate_tunnel returns or raises.
RotationTaskRotate(i, ok) ==
    /\ TaskAt(i, {"rotate"}, "adapter")
    /\ LET t == tasks[i] IN
         IF ok
         THEN /\ tunnels' = update_tunnel(t.tunnel, t.seen_tunnel,
                               [public_ip |-> IpOfRotation, status |-> "Connected", vm_id |-> t.vm])
              /\ tasks' = [tasks EXCEPT ![i].pc = "commit_vm", ![i].ip = IpOfRotation,
                                         ![i].seen_vm = Expired, ![i].seen_tunnel = Expired]
         ELSE /\ tasks' = [tasks EXCEPT ![i].pc = "fail", ![i].error = AdapterError]
              /\ UNCHANGED tunnels
    /\ last' = NoRequest
    /\ UNCHANGED <<vms, ops, guardrails>>
    /\ UNCHANGED <<jobs, reqs, settings, infra>>

\* The handler returns its response to the caller.
Respond ==
    /\ last # NoRequest
    /\ last' = NoRequest
    /\ UNCHANGED <<vms, tunnels, ops, tasks, guardrails>>
    /\ UNCHANGED <<jobs, reqs, settings, infra>>

----------------------------------------------------------------------------
Next ==
    \/ \E v \in VmIds, in \in CreateInputs : CreateVm(v, in[1], in[2], in[3])
    \/ \E v \in VmIds : StopVm(v)
    \/ \E v \in VmIds : RestartVm(v)
    \/ \E v \in VmIds : DeleteVm(v)
    \/ \E v \in VmIds : RotateIp(v)
    \/ \E v \in VmIds : SyncFingerprint(v)
    \/ \E i \in 1..MaxOps : TaskStart(i)
    \/ \E i \in 1..MaxOps, ok \in BOOLEAN : CreateTaskProvision(i, ok)
    \/ \E i \in 1..MaxOps, ok \in BOOLEAN : CreateTaskRotate(i, ok)
    \/ \E i \in 1..MaxOps, ok \in BOOLEAN : ActionTaskAct(i, ok)
    \/ \E i \in 1..MaxOps : DeleteTaskDetach(i)
    \/ \E i \in 1..MaxOps, ok \in BOOLEAN : RotationTaskRotate(i, ok)
    \/ \E i \in 1..MaxOps : TaskCommitVm(i)
    \/ \E i \in 1..MaxOps : TaskFinish(i)
    \/ \E i \in 1..MaxOps : TaskFail(i)
    \/ Respond

Spec == Init /\ [][Next]_vars

----------------------------------------------------------------------------
(* Properties *)

\* The step of a request handler of the given kinds: the step that puts the
\* response in `last`.
Answers(kinds) == last = NoRequest /\ last'.kind \in kinds

\* The handler changed nothing: no VM row, no tunnel, no Operation, no task.
NothingWritten == UNCHANGED <<vms, tunnels, ops, tasks>>

\* The handler appended one Operation with the given kind and status for VM v,
\* returned it, scheduled no task for it, and wrote nothing else.
SynthesizedOnly(v, operation) ==
    /\ last'.code = 200
    /\ last'.op = Len(ops) + 1
    /\ Len(ops') = Len(ops) + 1
    /\ SubSeq(ops', 1, Len(ops)) = ops
    /\ ops'[last'.op].resource_type = "vm"
    /\ ops'[last'.op].resource_id = v
    /\ ops'[last'.op].operation = operation
    /\ ops'[last'.op].status = "succeeded"
    /\ SubSeq(tasks', 1, Len(tasks)) = tasks
    /\ tasks'[last'.op].kind = "none"
    /\ UNCHANGED <<vms, tunnels>>

\* msg contains the text part as a contiguous piece.
Contains(msg, part) ==
    \E k \in 1..(Len(msg) + 1) :
        /\ k + Len(part) - 1 <= Len(msg)
        /\ SubSeq(msg, k, k + Len(part) - 1) = part

\* C1: once a VM's status is `deleted`, its status never changes again and
\* none of its fields (public_ip, network_id, verification_status) is written
\* again, in any interleaving of requests and background tasks.
C1_DeletedNeverMutated ==
    [][\A v \in VmIds : vms[v].status = "deleted" => vms'[v] = vms[v]]_vars

\* C2: every change of a VM's status is one of the listed edges:
\* creating->running, running->stopping, stopping->stopped,
\* running->restarting, stopped->restarting, restarting->running,
\* running->deleting, deleting->deleted, or (any non-deleted state)->error.
C2_Edges ==
    { <<"creating", "running">>, <<"running", "stopping">>, <<"stopping", "stopped">>,
      <<"running", "restarting">>, <<"stopped", "restarting">>,
      <<"restarting", "running">>, <<"running", "deleting">>, <<"deleting", "deleted">> }
      \cup { <<st, "error">> : st \in VmStatuses \ {"absent", "deleted"} }

C2_OnlyListedEdges ==
    [][\A v \in VmIds :
         (vms[v].status # "absent" /\ vms'[v].status # vms[v].status)
            => <<vms[v].status, vms'[v].status>> \in C2_Edges]_vars

\* C3: with max_vms = N held constant, the number of VMs in an active state
\* (creating, running, stopping, restarting) is at most N in every reachable
\* state.
C3_ActiveWithinMaxVms ==
    Cardinality({v \in VmIds :
        vms[v].status \in {"creating", "running", "stopping", "restarting"}})
      <= guardrails.max_vms

\* C4: a create_vm request for the id of an existing VM that is not deleted
\* fails with 409, whatever that VM's status, and leaves the record unchanged.
C4_DuplicateIdConflict ==
    [][(Answers({"create_vm"}) /\ vms[last'.vm].status \notin {"absent", "deleted"})
          => (last'.code = 409 /\ NothingWritten)]_vars

C4_Witness ==
    /\ last.kind = "create_vm"
    /\ last.code = 409
    /\ vms[last.vm].status = "stopped"

\* C5: a create_vm request rejected by a synchronous check creates no VM
\* record, no Operation and no background task.
C5_RejectedCreateWritesNothing ==
    [][(Answers({"create_vm"}) /\ last'.code # 200) => NothingWritten]_vars

\* A create for a fresh id rejected with 409 while the fleet is below max_vms:
\* the host-memory reserve check, the last of the synchronous checks.
C5_Witness ==
    /\ last.kind = "create_vm"
    /\ last.code = 409
    /\ vms[last.vm].status = "absent"
    /\ count_vms(ACTIVE_VM_STATES) < guardrails.max_vms
    /\ ops # <<>>

\* C6: memory and cpu that do not parse to a positive integer are rejected,
\* so every persisted VM has ram_mb > 0 and cpu_cores > 0.
C6_PersistedSizingPositive ==
    \A v \in VmIds :
        vms[v].status # "absent" => (vms[v].ram_mb > 0 /\ vms[v].cpu_cores > 0)

\* C7: in the provisioning task, once compute provisioning succeeded and the
\* tunnel rotation failed, the task writes the VM as `running` with
\* verification_status `Warning`, ends its Operation `succeeded` with the
\* rotation failure reason in the message, and neither moves the VM to
\* `error` nor marks the Operation `failed`.
C7_RotationFailureNonFatal ==
    [][\A i \in 1..Len(tasks) :
         (tasks[i].kind = "create" /\ tasks[i].rotation_failed /\ tasks'[i] # tasks[i])
            => /\ tasks'[i].pc # "fail"
               /\ ops'[i].status # "failed"
               /\ (tasks[i].pc = "commit_vm"
                     => /\ vms'[tasks[i].vm].status = "running"
                        /\ vms'[tasks[i].vm].verification_status = "Warning")
               /\ (tasks[i].pc = "finish"
                     => /\ tasks'[i].pc = "done"
                        /\ ops'[i].status = "succeeded"
                        /\ Contains(ops'[i].message, AdapterError)
                        /\ vms' = vms)]_vars

C7_Witness ==
    \E i \in 1..Len(tasks) :
        /\ tasks[i].kind = "create"
        /\ tasks[i].rotation_failed
        /\ tasks[i].pc = "done"
        /\ ops[i].status = "succeeded"
        /\ vms[tasks[i].vm].status = "running"
        /\ vms[tasks[i].vm].verification_status = "Warning"

\* C8: stop_vm on a `stopped` VM and delete_vm on a `deleted` VM return a
\* newly created `succeeded` Operation, leave the VM unchanged and schedule no
\* background task.
C8_RepeatShortCircuits ==
    [][/\ (Answers({"stop_vm"}) /\ vms[last'.vm].status = "stopped")
            => SynthesizedOnly(last'.vm, "stop")
       /\ (Answers({"delete_vm"}) /\ vms[last'.vm].status = "deleted")
            => SynthesizedOnly(last'.vm, "delete")]_vars

C8_Witness ==
    /\ last.kind = "delete_vm"
    /\ last.code = 200
    /\ vms[last.vm].status = "deleted"
    /\ ops[last.op].status = "succeeded"
    /\ ops[last.op].message = <<"VM already deleted.">>

\* C9 as stated: stop_vm, restart_vm and delete_vm on a VM whose status is
\* outside the legal source set of the action (stop: running, restarting;
\* restart: running, stopped; delete: creating, running, stopping, stopped,
\* restarting, error) fail with 409 and write nothing.
C9_LegalSources(kind) ==
    CASE kind = "stop_vm" -> {"running", "restarting"}
      [] kind = "restart_vm" -> {"running", "stopped"}
      [] kind = "delete_vm" ->
            {"creating", "running", "stopping", "stopped", "restarting", "error"}

C9_Original ==
    [][(/\ Answers({"stop_vm", "restart_vm", "delete_vm"})
        /\ vms[last'.vm].status # "absent"
        /\ vms[last'.vm].status \notin C9_LegalSources(last'.kind))
          => (last'.code = 409 /\ NothingWritten)]_vars

\* C9 as amended: the same, for a status that is neither `deleted` nor, for
\* stop_vm, `stopped` (those are answered 404 or by the short-circuit of C8).
C9_IllegalSourceRejected ==
    [][(/\ Answers({"stop_vm", "restart_vm", "delete_vm"})
        /\ vms[last'.vm].status \notin {"absent", "deleted"}
        /\ ~(last'.kind = "stop_vm" /\ vms[last'.vm].status = "stopped")
        /\ vms[last'.vm].status \notin C9_LegalSources(last'.kind))
          => (last'.code = 409 /\ NothingWritten)]_vars

C9_Witness ==
    /\ last.kind = "restart_vm"
    /\ last.code = 409
    /\ vms[last.vm].status = "error"

\* C10: a stop, restart or delete request that arrives while a pending or
\* running Operation of the same kind for that VM exists returns that
\* Operation: it does not fail, creates no Operation and schedules no task.
C10_OperationOf(kind) ==
    CASE kind = "stop_vm" -> "stop"
      [] kind = "restart_vm" -> "restart"
      [] kind = "delete_vm" -> "delete"

C10_InFlight(v, operation) ==
    {i \in 1..Len(ops) :
        /\ ops[i].resource_type = "vm"
        /\ ops[i].resource_id = v
        /\ ops[i].operation = operation
        /\ ops[i].status \in {"pending", "running"}}

C10_InFlightReturned ==
    [][(/\ Answers({"stop_vm", "restart_vm", "delete_vm"})
        /\ C10_InFlight(last'.vm, C10_OperationOf(last'.kind)) # {})
          => /\ last'.code = 200
             /\ last'.op \in C10_InFlight(last'.vm, C10_OperationOf(last'.kind))
             /\ NothingWritten]_vars


(* AutomationService: the job engine *)

RUNNABLE_VM_STATES == {"running"}
TERMINAL_VM_STATES == {"deleted", "error", "stopped"}
MAX_JOB_RETRIES == 2

\* JOB_STAGES: the target progress of each stage.
JOB_STAGES == <<12, 28, 48, 74, 90>>

Min(a, b) == IF a <= b THEN a ELSE b

\* str(exc) of the errors the run path raises.
NoRunningVm == <<"No running VM is available for auto-assignment.">>
VmGone(v) == <<"Assigned VM no longer exists.", v>>
VmInState(v, status) == <<"Assigned VM is in state", v, status>>
VmCurrently(v, status) == <<"Assigned VM is currently", v, status>>
UnexpectedError == <<"unexpected error">>

CreatedAt(v) == vms[v].created_at

RunnableVms == {v \in DOMAIN vms : vms[v].status \in RUNNABLE_VM_STATES}

\* _pick_runtime_vm: the oldest running VM, None when there is none.
pick_runtime_vm ==
    IF RunnableVms = {} THEN None
    ELSE CHOOSE v \in RunnableVms : \A w \in RunnableVms : CreatedAt(v) <= CreatedAt(w)

\* _resolve_job_vm without an explicit VM: the least loaded running VM, the
\* oldest first among equally loaded ones.
JobLoad(v) ==
    Cardinality({j \in DOMAIN jobs : /\ jobs[j].vm_id = v
                                /\ jobs[j].status \in {"Queued", "Running", "Retrying"}})

LeastLoadedVm ==
    IF RunnableVms = {} THEN None
    ELSE CHOOSE v \in RunnableVms :
            \A w \in RunnableVms :
                \/ JobLoad(v) < JobLoad(w)
                \/ JobLoad(v) = JobLoad(w) /\ CreatedAt(v) <= CreatedAt(w)

update_scheduler_job(j, updates) ==
    [jobs EXCEPT ![j] = [f \in DOMAIN jobs[j] |->
                            IF f \in DOMAIN updates THEN updates[f] ELSE jobs[j][f]]]

\* A faulty variant of CreateJob: a pinned VM only has to exist.
CreateJob_AnyVmState(j, v) ==
    /\ last = NoRequest
    /\ LET resp(code, op) == Response("create_job", v, code, op) IN
         IF jobs[j].status # "absent"
         THEN /\ last' = resp(409, 0)
              /\ UNCHANGED <<jobs, ops, tasks>>
         ELSE IF v # None /\ vms[v].status \in {"absent", "deleted"}
         THEN /\ last' = resp(404, 0)
              /\ UNCHANGED <<jobs, ops, tasks>>
         ELSE /\ jobs' = [jobs EXCEPT ![j] =
                            [NoJobRow EXCEPT !.status = "Queued",
                                             !.vm_id = IF v # None THEN v ELSE LeastLoadedVm]]
              /\ Enqueue(NewOp("job", j, "schedule", "pending", <<"Job queued.">>),
                         [NewTask("job", None, 0) EXCEPT !.job = j])
              /\ last' = resp(200, Len(ops) + 1)
    /\ UNCHANGED <<vms, tunnels, guardrails, reqs, settings, infra>>

\* create_job: 409 for an existing job id; an explicit VM must exist and be
\* running (404, 409); otherwise the job is stored Queued with its schedule
\* Operation pending and the runner is queued.
CreateJob(j, v) ==
    /\ last = NoRequest
    /\ LET resp(code, op) == Response("create_job", v, code, op) IN
         IF jobs[j].status # "absent"
         THEN /\ last' = resp(409, 0)
              /\ UNCHANGED <<jobs, ops, tasks>>
         ELSE IF v # None /\ vms[v].status \in {"absent", "deleted"}
         THEN /\ last' = resp(404, 0)
              /\ UNCHANGED <<jobs, ops, tasks>>
         ELSE IF v # None /\ vms[v].status \notin RUNNABLE_VM_STATES
         THEN /\ last' = resp(409, 0)
              /\ UNCHANGED <<jobs, ops, tasks>>
         ELSE /\ jobs' = [jobs EXCEPT ![j] =
                            [NoJobRow EXCEPT !.status = "Queued",
                                             !.vm_id = IF v # None THEN v ELSE LeastLoadedVm]]
              /\ Enqueue(NewOp("job", j, "schedule", "pending", <<"Job queued.">>),
                         [NewTask("job", None, 0) EXCEPT !.job = j])
              /\ last' = resp(200, Len(ops) + 1)
    /\ UNCHANGED <<vms, tunnels, guardrails, reqs, settings, infra>>

JobStep(i, pc) == TaskAt(i, {"job"}, pc)

\* _run_job_task up to the retry loop: a job without a VM is given the oldest
\* running one, and the Operation is set running.
JobStart(i) ==
    /\ JobStep(i, "start")
    /\ LET j == tasks[i].job IN
         jobs' = IF jobs[j].vm_id = None /\ pick_runtime_vm # None
                 THEN update_scheduler_job(j, [vm_id |-> pick_runtime_vm])
                 ELSE jobs
    /\ ops' = update_operation_status(i, "running", <<"Job accepted by scheduler.">>)
    /\ tasks' = [tasks EXCEPT ![i].pc = "attempt", ![i].attempt = 1]
    /\ UNCHANGED <<vms, tunnels, guardrails, last, reqs, settings, infra>>

\* A faulty variant of JobAttemptBegin: retry_index counts the attempt, not the retry.
JobAttemptBegin_CountsAttempt(i) ==
    /\ JobStep(i, "attempt")
    /\ LET t == tasks[i] IN
         IF t.attempt > 1
         THEN /\ jobs' = update_scheduler_job(t.job,
                           [status |-> "Retrying", retry_count |-> t.attempt,
                            error_message |-> <<>>, progress |-> 5])
              /\ ops' = update_operation_status(i, "running", <<"Retry", t.attempt>>)
         ELSE UNCHANGED <<jobs, ops>>
    /\ tasks' = [tasks EXCEPT ![i].pc = "check", ![i].error = <<>>]
    /\ UNCHANGED <<vms, tunnels, guardrails, last, reqs, settings, infra>>

\* _run_job_with_retries, the head of one loop iteration: a retry marks the
\* job Retrying with retry_count = attempt - 1, progress 5 and no error.
JobAttemptBegin(i) ==
    /\ JobStep(i, "attempt")
    /\ LET t == tasks[i] IN
         IF t.attempt > 1
         THEN /\ jobs' = update_scheduler_job(t.job,
                           [status |-> "Retrying", retry_count |-> t.attempt - 1,
                            error_message |-> <<>>, progress |-> 5])
              /\ ops' = update_operation_status(i, "running", <<"Retry", t.attempt - 1>>)
         ELSE UNCHANGED <<jobs, ops>>
    /\ tasks' = [tasks EXCEPT ![i].pc = "check", ![i].error = <<>>]
    /\ UNCHANGED <<vms, tunnels, guardrails, last, reqs, settings, infra>>

\* _run_single_job_attempt: a job still without a VM takes the oldest running
\* one or fails retryably.
JobAttemptAssign(i) ==
    /\ JobStep(i, "check")
    /\ LET t == tasks[i] IN
         /\ jobs[t.job].vm_id = None
         /\ IF pick_runtime_vm = None
            THEN /\ tasks' = [tasks EXCEPT ![i].pc = "retryable", ![i].error = NoRunningVm]
                 /\ UNCHANGED jobs
            ELSE /\ jobs' = update_scheduler_job(t.job, [vm_id |-> pick_runtime_vm])
                 /\ UNCHANGED tasks
    /\ UNCHANGED <<vms, tunnels, ops, guardrails, last, reqs, settings, infra>>

\* _run_single_job_attempt: the assigned VM is read; missing, deleted or in a
\* terminal state is fatal, any other state than running is retryable.
JobAttemptCheck(i) ==
    /\ JobStep(i, "check")
    /\ LET t      == tasks[i]
           v      == jobs[t.job].vm_id
           status == vms[v].status
       IN  /\ v # None
           /\ tasks' =
                IF status \in {"absent", "deleted"}
                THEN [tasks EXCEPT ![i].pc = "fatal", ![i].error = VmGone(v)]
                ELSE IF status \in TERMINAL_VM_STATES
                THEN [tasks EXCEPT ![i].pc = "fatal", ![i].error = VmInState(v, status)]
                ELSE IF status \notin RUNNABLE_VM_STATES
                THEN [tasks EXCEPT ![i].pc = "retryable", ![i].error = VmCurrently(v, status)]
                ELSE [tasks EXCEPT ![i].pc = "stage", ![i].stage = 1]
    /\ UNCHANGED <<vms, tunnels, ops, jobs, guardrails, last, reqs, settings, infra>>

\* A faulty variant of JobStage: the last stage already reports full progress.
JobStage_FullAtLastStage(i) ==
    /\ JobStep(i, "stage")
    /\ LET t == tasks[i] IN
         /\ jobs' = update_scheduler_job(t.job,
                      [status |-> "Running",
                       progress |-> IF t.stage < Len(JOB_STAGES)
                                    THEN JOB_STAGES[t.stage] ELSE 100,
                       error_message |-> <<>>])
         /\ ops' = update_operation_status(i, "running", <<"stage", t.stage>>)
         /\ tasks' = IF t.stage < Len(JOB_STAGES)
                     THEN [tasks EXCEPT ![i].stage = t.stage + 1]
                     ELSE [tasks EXCEPT ![i].pc = "complete", ![i].stage = 0]
    /\ UNCHANGED <<vms, tunnels, guardrails, last, reqs, settings, infra>>

\* One stage of JOB_STAGES: the job is Running at the stage's progress and
\* the Operation is set running.
JobStage(i) ==
    /\ JobStep(i, "stage")
    /\ LET t == tasks[i] IN
         /\ jobs' = update_scheduler_job(t.job,
                      [status |-> "Running", progress |-> JOB_STAGES[t.stage],
                       error_message |-> <<>>])
         /\ ops' = update_operation_status(i, "running", <<"stage", t.stage>>)
         /\ tasks' = IF t.stage < Len(JOB_STAGES)
                     THEN [tasks EXCEPT ![i].stage = t.stage + 1]
                     ELSE [tasks EXCEPT ![i].pc = "complete", ![i].stage = 0]
    /\ UNCHANGED <<vms, tunnels, guardrails, last, reqs, settings, infra>>

\* A faulty variant of JobSucceed: the progress of the last stage is kept.
JobSucceed_KeepsProgress(i) ==
    /\ JobStep(i, "complete")
    /\ jobs' = update_scheduler_job(tasks[i].job,
                 [status |-> "Completed", error_message |-> <<>>])
    /\ ops' = update_operation_status(i, "succeeded", <<"Job completed.">>)
    /\ tasks' = [tasks EXCEPT ![i].pc = "done"]
    /\ UNCHANGED <<vms, tunnels, guardrails, last, reqs, settings, infra>>

\* The attempt returned: the job is Completed at progress 100 without error
\* and the Operation succeeded.
JobSucceed(i) ==
    /\ JobStep(i, "complete")
    /\ jobs' = update_scheduler_job(tasks[i].job,
                 [status |-> "Completed", progress |-> 100, error_message |-> <<>>])
    /\ ops' = update_operation_status(i, "succeeded", <<"Job completed.">>)
    /\ tasks' = [tasks EXCEPT ![i].pc = "done"]
    /\ UNCHANGED <<vms, tunnels, guardrails, last, reqs, settings, infra>>

\* A faulty variant of JobRetryable: every retryable failure is followed by another attempt.
JobRetryable_Unbounded(i) ==
    /\ JobStep(i, "retryable")
    /\ tasks[i].attempt <= MAX_JOB_RETRIES + 2
    /\ LET t == tasks[i] IN
         /\ jobs' = update_scheduler_job(t.job,
                      [status |-> "Retrying",
                       retry_count |-> Min(t.attempt, MAX_JOB_RETRIES),
                       error_message |-> t.error, progress |-> 5])
         /\ tasks' = [tasks EXCEPT ![i].pc = "attempt", ![i].attempt = t.attempt + 1]
         /\ UNCHANGED ops
    /\ UNCHANGED <<vms, tunnels, guardrails, last, reqs, settings, infra>>

\* except JobRetryableError: the error is recorded; another attempt follows
\* unless this was the last one, which fails the job and the Operation and
\* re-raises.
JobRetryable(i) ==
    /\ JobStep(i, "retryable")
    /\ LET t              == tasks[i]
           total_attempts == MAX_JOB_RETRIES + 1
           more           == t.attempt < total_attempts
       IN  /\ jobs' = update_scheduler_job(t.job,
                        [status |-> IF more THEN "Retrying" ELSE "Failed",
                         retry_count |-> Min(t.attempt, MAX_JOB_RETRIES),
                         error_message |-> t.error,
                         progress |-> IF more THEN 5 ELSE Min(jobs[t.job].progress, 95)])
           /\ IF more
              THEN /\ tasks' = [tasks EXCEPT ![i].pc = "attempt", ![i].attempt = t.attempt + 1]
                   /\ UNCHANGED ops
              ELSE /\ ops' = update_operation_status(i, "failed", t.error)
                   /\ tasks' = [tasks EXCEPT ![i].pc = "except"]
    /\ UNCHANGED <<vms, tunnels, guardrails, last, reqs, settings, infra>>

\* A faulty variant of JobFatal: the fatal error is handled as a retryable one.
JobFatal_Retries(i) ==
    /\ JobStep(i, "fatal")
    /\ tasks' = [tasks EXCEPT ![i].pc = "retryable"]
    /\ UNCHANGED <<jobs, ops>>
    /\ UNCHANGED <<vms, tunnels, guardrails, last, reqs, settings, infra>>

\* except JobFatalError: the job and the Operation fail with the error, which
\* is re-raised.
JobFatal(i) ==
    /\ JobStep(i, "fatal")
    /\ jobs' = update_scheduler_job(tasks[i].job,
                 [status |-> "Failed", error_message |-> tasks[i].error])
    /\ ops' = update_operation_status(i, "failed", tasks[i].error)
    /\ tasks' = [tasks EXCEPT ![i].pc = "except"]
    /\ UNCHANGED <<vms, tunnels, guardrails, last, reqs, settings, infra>>

\* Any other exception raised in the run path.
JobRaise(i) ==
    /\ \E pc \in {"start", "attempt", "check", "stage", "complete", "retryable", "fatal"} :
          JobStep(i, pc)
    /\ tasks' = [tasks EXCEPT ![i].pc = "except", ![i].error = UnexpectedError]
    /\ UNCHANGED <<vms, tunnels, ops, jobs, guardrails, last, reqs, settings, infra>>

\* A faulty variant of JobExcept: only the Operation records the failure.
JobExcept_OperationOnly(i) ==
    /\ JobStep(i, "except")
    /\ ops' = update_operation_status(i, "failed", tasks[i].error)
    /\ tasks' = [tasks EXCEPT ![i].pc = "done"]
    /\ UNCHANGED jobs
    /\ UNCHANGED <<vms, tunnels, guardrails, last, reqs, settings, infra>>

\* _run_job_task, except Exception: the job is Failed with progress at most 99
\* and str(exc), and the Operation is failed with str(exc).
JobExcept(i) ==
    /\ JobStep(i, "except")
    /\ LET t == tasks[i] IN
         /\ jobs' = update_scheduler_job(t.job,
                      [status |-> "Failed", progress |-> Min(jobs[t.job].progress, 99),
                       error_message |-> t.error])
         /\ ops' = update_operation_status(i, "failed", t.error)
    /\ tasks' = [tasks EXCEPT ![i].pc = "done"]
    /\ UNCHANGED <<vms, tunnels, guardrails, last, reqs, settings, infra>>

\* Jobs are scheduled while VMs are created, stopped and deleted.
JobNext ==
    \/ \E v \in VmIds : CreateVm(v, "t-001", Ram16GB, Cpu1)
    \/ \E v \in VmIds : StopVm(v)
    \/ \E v \in VmIds : DeleteVm(v)
    \/ \E j \in JobIds, v \in VmIds \cup {None} : CreateJob(j, v)
    \/ \E i \in 1..MaxOps : TaskStart(i)
    \/ \E i \in 1..MaxOps, ok \in BOOLEAN : CreateTaskProvision(i, ok)
    \/ \E i \in 1..MaxOps, ok \in BOOLEAN : CreateTaskRotate(i, ok)
    \/ \E i \in 1..MaxOps, ok \in BOOLEAN : ActionTaskAct(i, ok)
    \/ \E i \in 1..MaxOps : DeleteTaskDetach(i)
    \/ \E i \in 1..MaxOps : TaskCommitVm(i)
    \/ \E i \in 1..MaxOps : TaskFinish(i)
    \/ \E i \in 1..MaxOps : TaskFail(i)
    \/ \E i \in 1..MaxOps : JobStart(i)
    \/ \E i \in 1..MaxOps : JobAttemptBegin(i)
    \/ \E i \in 1..MaxOps : JobAttemptAssign(i)
    \/ \E i \in 1..MaxOps : JobAttemptCheck(i)
    \/ \E i \in 1..MaxOps : JobStage(i)
    \/ \E i \in 1..MaxOps : JobSucceed(i)
    \/ \E i \in 1..MaxOps : JobRetryable(i)
    \/ \E i \in 1..MaxOps : JobFatal(i)
    \/ \E i \in 1..MaxOps : JobRaise(i)
    \/ \E i \in 1..MaxOps : JobExcept(i)
    \/ Respond

JobSpec == Init /\ [][JobNext]_vars

----------------------------------------------------------------------------
(* AutomationService.evaluate_autoscale *)

Max(a, b) == IF a >= b THEN a ELSE b

\* str.__lt__, by the code point order of the characters of region names.
RECURSIVE StrLess(_, _)
StrLess(a, b) ==
    LET CharRank == (" " :> 0) @@ ("D" :> 1) @@ ("E" :> 2) @@ ("S" :> 3) @@ ("U" :> 4)
                      @@ ("d" :> 5) @@ ("e" :> 6) @@ ("s" :> 7) @@ ("u" :> 8)
    IN  IF b = <<>> THEN FALSE
        ELSE IF a = <<>> THEN TRUE
        ELSE IF Head(a) # Head(b) THEN CharRank[Head(a)] < CharRank[Head(b)]
        ELSE StrLess(Tail(a), Tail(b))

RECURSIVE SumOver(_, _)
SumOver(f, S) ==
    IF S = {} THEN 0
    ELSE LET x == CHOOSE y \in S : TRUE IN f[x] + SumOver(f, S \ {x})

RECURSIVE MaxOver(_, _)
MaxOver(f, S) ==
    IF S = {} THEN 0
    ELSE LET x == CHOOSE y \in S : TRUE IN Max(f[x], MaxOver(f, S \ {x}))

\* effective_max_vms
EffectiveMax(p) == Min(p.max_vms, guardrails.max_vms)

\* country_min_pools after the loop over the request's pools and the fold of
\* min_vms into the target region: normalized name -> minimum.
CountryMinPools(p) ==
    LET raw    == p.country_min_pools
        target == normalize_country(p.country)
        names  == {normalize_country(k) : k \in DOMAIN raw} \cup {target}
    IN  [n \in names |->
           Max(MaxOver(raw, {k \in DOMAIN raw : normalize_country(k) = n}),
               IF n = target THEN p.min_vms ELSE 0)]

PooledMinimum(p) == SumOver(CountryMinPools(p), DOMAIN CountryMinPools(p))

\* A faulty variant of AutoscaleRejected: the regional minimums are not summed up.
AutoscaleRejected_NoPoolSum(p) ==
    \/ p.max_vms < p.min_vms
    \/ EffectiveMax(p) < p.min_vms
    \/ \E k \in DOMAIN p.country_min_pools : p.country_min_pools[k] < 0

\* The HTTP 400 checks, in the order of the code.
AutoscaleRejected(p) ==
    \/ p.max_vms < p.min_vms
    \/ EffectiveMax(p) < p.min_vms
    \/ \E k \in DOMAIN p.country_min_pools : p.country_min_pools[k] < 0
    \/ PooledMinimum(p) > EffectiveMax(p)

RunningVms == {v \in DOMAIN vms : vms[v].status = "running"}

RunningByCountry(n) ==
    Cardinality({v \in RunningVms : normalize_country(vms[v].country) = n})

ActiveJobs == {j \in DOMAIN jobs : jobs[j].status \in {"Queued", "Running", "Retrying"}}

\* A faulty variant of DesiredFromJobs: the quotient is rounded down.
DesiredFromJobs_Floor(p) ==
    LET n == Cardinality(ActiveJobs) IN
    IF n = 0 THEN 0 ELSE n \div p.jobs_per_vm

\* math.ceil(len(active_jobs) / jobs_per_vm)
DesiredFromJobs(p) ==
    LET n == Cardinality(ActiveJobs) IN
    IF n = 0 THEN 0
    ELSE IF n % p.jobs_per_vm = 0 THEN n \div p.jobs_per_vm
    ELSE n \div p.jobs_per_vm + 1

DesiredVms(p) == Min(Max(DesiredFromJobs(p), PooledMinimum(p)), EffectiveMax(p))

\* A faulty variant of ScaleUpRegions: regions are not compared by name.
ScaleUpRegions_NoNameOrder(p) ==
    LET pools    == CountryMinPools(p)
        deficits == {n \in DOMAIN pools : RunningByCountry(n) < pools[n]}
        Deficit(n) == pools[n] - RunningByCountry(n)
        Before(n, m) ==
            \/ Deficit(n) > Deficit(m)
            \/ Deficit(n) = Deficit(m) /\ RunningByCountry(n) < RunningByCountry(m)
    IN  IF deficits = {} THEN {normalize_country(p.country)}
        ELSE {n \in deficits : \A m \in deficits : ~Before(m, n)}

\* The regions deficits.sort(key=(-deficit, running, name)) can put first;
\* the target region when no region is below its minimum.
ScaleUpRegions(p) ==
    LET pools    == CountryMinPools(p)
        deficits == {n \in DOMAIN pools : RunningByCountry(n) < pools[n]}
        Deficit(n) == pools[n] - RunningByCountry(n)
        Before(n, m) ==
            \/ Deficit(n) > Deficit(m)
            \/ Deficit(n) = Deficit(m) /\ RunningByCountry(n) < RunningByCountry(m)
            \/ /\ Deficit(n) = Deficit(m)
               /\ RunningByCountry(n) = RunningByCountry(m)
               /\ StrLess(n, m)
    IN  IF deficits = {} THEN {normalize_country(p.country)}
        ELSE {n \in deficits : \A m \in deficits : ~Before(m, n)}

\* idle_candidates: running VMs that no active job names.
IdleCandidates ==
    {v \in RunningVms : \A j \in ActiveJobs : jobs[j].vm_id # v}

\* eligible_idle_candidates: removal keeps the VM's region at its minimum.
EligibleIdleCandidates(p) ==
    LET pools == CountryMinPools(p) IN
    {v \in IdleCandidates :
        LET n     == normalize_country(vms[v].country)
            floor == IF n \in DOMAIN pools THEN pools[n] ELSE 0
        IN  RunningByCountry(n) - 1 >= floor}

\* The VMs sorted(..., key=created_at, reverse=True) can put first.
ScaleDownTargets(p) ==
    {v \in EligibleIdleCandidates(p) :
        \A w \in EligibleIdleCandidates(p) : CreatedAt(w) <= CreatedAt(v)}

\* AutoscaleDecision, with the request it answers; an HTTP error has action
\* "error".
Decision(p, code, action, reason, desired, op, vm, country) ==
    [kind |-> "autoscale", request |-> p, code |-> code, action |-> action,
     reason |-> reason, running_vms |-> Cardinality(RunningVms),
     desired_vms |-> desired, active_jobs |-> Cardinality(ActiveJobs),
     queued_jobs |-> Cardinality({j \in DOMAIN jobs : jobs[j].status = "Queued"}), op |-> op, vm |-> vm,
     country |-> country]

AutoscaleError(p, code) == Decision(p, code, "error", "error", 0, 0, None, <<>>)

\* A faulty variant of ScaleUp: the VM is created in the region the request names.
ScaleUp_InRequestedRegion(p, auto_vm_id, target_country) ==
    LET check == CreateVmCheck(auto_vm_id, p.template_id, p.ram, p.cpu) IN
    IF check[1] = 200
    THEN /\ vms' = [vms EXCEPT ![auto_vm_id] =
                      [NewVmRow(parse_ram_to_mb(p.ram), parse_cpu_cores(p.cpu))
                         EXCEPT !.country = normalize_country(p.country)]]
         /\ Enqueue(NewOp("vm", auto_vm_id, "create", "pending", <<"VM creation queued.">>),
                    NewTask("create", auto_vm_id, 0))
         /\ last' = Decision(p, 200, "scale_up", "scale_up", DesiredVms(p),
                             Len(ops) + 1, auto_vm_id, normalize_country(p.country))
    ELSE /\ last' = AutoscaleError(p, check[1])
         /\ UNCHANGED <<vms, ops, tasks>>

\* The scale-up branch: create_vm for a VM id minted by the evaluation.
ScaleUp(p, auto_vm_id, target_country) ==
    LET check == CreateVmCheck(auto_vm_id, p.template_id, p.ram, p.cpu) IN
    IF check[1] = 200
    THEN /\ vms' = [vms EXCEPT ![auto_vm_id] =
                      [NewVmRow(parse_ram_to_mb(p.ram), parse_cpu_cores(p.cpu))
                         EXCEPT !.country = normalize_country(target_country)]]
         /\ Enqueue(NewOp("vm", auto_vm_id, "create", "pending", <<"VM creation queued.">>),
                    NewTask("create", auto_vm_id, 0))
         /\ last' = Decision(p, 200, "scale_up", "scale_up", DesiredVms(p),
                             Len(ops) + 1, auto_vm_id, target_country)
    ELSE /\ last' = AutoscaleError(p, check[1])
         /\ UNCHANGED <<vms, ops, tasks>>

\* The scale-down branch: stop_vm for the chosen VM, which is running.
ScaleDown(p, target_vm) ==
    LET in_flight == get_latest_operation("vm", target_vm, "stop", IN_FLIGHT)
        decision(op) == Decision(p, 200, "scale_down", "scale_down", DesiredVms(p),
                                 op, target_vm, <<>>)
    IN  IF in_flight # 0
        THEN /\ last' = decision(in_flight)
             /\ UNCHANGED <<vms, ops, tasks>>
        ELSE /\ vms' = [vms EXCEPT ![target_vm].status = "stopping"]
             /\ Enqueue(NewOp("vm", target_vm, "stop", "pending", <<"Stop queued.">>),
                        NewTask("stop", target_vm, 0))
             /\ last' = decision(Len(ops) + 1)

EvaluateAutoscale(p, auto_vm_id) ==
    /\ last = NoRequest
    /\ LET running == Cardinality(RunningVms)
           desired == DesiredVms(p)
           none(reason) == Decision(p, 200, "none", reason, desired, 0, None, <<>>)
       IN  IF AutoscaleRejected(p)
           THEN /\ last' = AutoscaleError(p, 400)
                /\ UNCHANGED <<vms, ops, tasks>>
           ELSE IF running < desired
           THEN \E target_country \in ScaleUpRegions(p) :
                   ScaleUp(p, auto_vm_id, target_country)
           ELSE IF running > desired
           THEN IF EligibleIdleCandidates(p) # {}
                THEN \E target_vm \in ScaleDownTargets(p) : ScaleDown(p, target_vm)
                ELSE /\ last' = none(IF IdleCandidates # {} THEN "pools" ELSE "busy")
                     /\ UNCHANGED <<vms, ops, tasks>>
           ELSE /\ last' = none("stable")
                /\ UNCHANGED <<vms, ops, tasks>>
    /\ UNCHANGED <<tunnels, guardrails, jobs, reqs, settings, infra>>

(* A fleet with jobs, on which jobs are assigned and autoscale requests are
   evaluated.  The run starts from a fleet that earlier requests have built:
   up to two VMs in two regions, created in the order vm-a, vm-b, each
   running, stopped or still creating; up to two jobs, queued (with their
   runner not yet started, or in its first attempt) or completed; possibly a
   stop of vm-b still queued after a restart brought it back to running; and
   the max_vms guardrail as the governance API last set it. *)

AutoIds == {"auto-1"}
FleetRamMb == 256

De == <<"D", "e">>
Us == <<"U", "s">>

\* The fleet: a row per VM, one Connected tunnel per region in use, attached
\* to the VM provisioned last in it, and for each job its row, its Operation
\* and where its runner stands.
FleetInit ==
    LET FleetRow(st, n, created_at) ==
            [status |-> st, ram_mb |-> FleetRamMb, cpu_cores |-> 1,
             public_ip |-> IF st = "creating" THEN None ELSE IpOfRotation,
             network_id |-> 0, verification_status |-> "Secure",
             country |-> n, created_at |-> created_at]
        FleetRows(v) ==
            IF v = "vm-a"
            THEN {NoVmRow, FleetRow("running", De, 1), FleetRow("running", Us, 1),
                  FleetRow("stopped", De, 1)}
            ELSE {NoVmRow, FleetRow("running", De, 2), FleetRow("running", Us, 2),
                  FleetRow("creating", Us, 2)}
        Provisioned(row) == row.status \in {"running", "stopped"}
        FleetTunnelOf(ra, rb, v) ==
            IF v = "vm-a" THEN IF Provisioned(ra) THEN 1 ELSE 0
            ELSE IF ~Provisioned(rb) THEN 0
            ELSE IF ~Provisioned(ra) THEN 1
            ELSE IF ra.country = rb.country THEN 1 ELSE 2
        tunnel(id, v) == [id |-> id, status |-> "Connected",
                          public_ip |-> IpOfRotation, vm_id |-> v]
        FleetTunnels(ra, rb) ==
            LET ta == FleetTunnelOf(ra, rb, "vm-a")
                tb == FleetTunnelOf(ra, rb, "vm-b")
            IN  IF ta = 0 /\ tb = 0 THEN <<>>
                ELSE IF tb = 0 THEN <<tunnel(1, "vm-a")>>
                ELSE IF ta = 0 \/ ta = tb THEN <<tunnel(1, "vm-b")>>
                ELSE <<tunnel(1, "vm-a"), tunnel(2, "vm-b")>>
        FleetJobOptions(j) ==
            {[status |-> "absent", vm_id |-> None, pc |-> "none"]}
            \cup {[status |-> "Queued", vm_id |-> v, pc |-> "start"] : v \in VmIds \cup {None}}
            \cup (IF j = "job-1"
                  THEN {[status |-> "Queued", vm_id |-> None, pc |-> "check"],
                        [status |-> "Completed", vm_id |-> "vm-a", pc |-> "done"]}
                  ELSE {})
        FleetJobRow(o) ==
            [NoJobRow EXCEPT !.status = o.status, !.vm_id = o.vm_id,
                             !.progress = IF o.status = "Completed" THEN 100 ELSE 0]
        op(j) == NewOp("job", j, "schedule", "pending", <<"Job queued.">>)
        FleetJobOp(j, o) ==
            CASE o.pc = "start" -> op(j)
              [] o.pc = "check" -> [op(j) EXCEPT !.status = "running", !.updates = 1,
                                                 !.started_at = 1,
                                                 !.message = <<"Job accepted by scheduler.">>]
              [] o.pc = "done"  -> [op(j) EXCEPT !.status = "succeeded",
                                                 !.updates = Len(JOB_STAGES) + 2,
                                                 !.started_at = Len(JOB_STAGES) + 1,
                                                 !.finished_at = Len(JOB_STAGES) + 2,
                                                 !.message = <<"Job completed.">>]
        FleetJobTask(j, o) ==
            [NewTask("job", None, 0) EXCEPT !.job = j, !.pc = o.pc,
                                            !.attempt = IF o.pc = "start" THEN 0 ELSE 1]
        FleetLedger(o1, o2, stop_queued) ==
            (IF o1.status = "absent" THEN <<>>
             ELSE << <<FleetJobOp("job-1", o1), FleetJobTask("job-1", o1)>> >>)
            \o (IF o2.status = "absent" THEN <<>>
                ELSE << <<FleetJobOp("job-2", o2), FleetJobTask("job-2", o2)>> >>)
            \o (IF ~stop_queued THEN <<>>
                ELSE << <<NewOp("vm", "vm-b", "stop", "pending", <<"Stop queued.">>),
                          NewTask("stop", "vm-b", 0)>> >>)
    IN
    \E ra \in FleetRows("vm-a"), rb \in FleetRows("vm-b"),
       o1 \in FleetJobOptions("job-1"), o2 \in FleetJobOptions("job-2"),
       stop_queued \in BOOLEAN, max_vms \in {1, 3} :
       LET rows   == ("vm-a" :> ra) @@ ("vm-b" :> rb)
           ledger == FleetLedger(o1, o2, stop_queued)
       IN  /\ \A o \in {o1, o2} : o.vm_id # None => Provisioned(rows[o.vm_id])
           /\ o1.status = "absent" => o2.status = "absent"
           /\ stop_queued => rb.status = "running"
           /\ vms = [v \in VmIds \cup AutoIds |->
                       IF v \in AutoIds THEN NoVmRow
                       ELSE [rows[v] EXCEPT !.network_id =
                               IF rows[v].status = "absent" THEN 0
                               ELSE FleetTunnelOf(ra, rb, v)]]
           /\ tunnels = FleetTunnels(ra, rb)
           /\ ops = [i \in 1..Len(ledger) |-> ledger[i][1]]
           /\ tasks = [i \in 1..Len(ledger) |-> ledger[i][2]]
           /\ jobs = ("job-1" :> FleetJobRow(o1)) @@ ("job-2" :> FleetJobRow(o2))
           /\ guardrails = [max_vms |-> max_vms, min_host_ram_mb |-> SeedMinHostRamMb,
                            max_cpu_per_vm |-> SeedMaxCpuPerVm, overload_prevention |-> TRUE]
           /\ last = NoRequest
           /\ reqs = [c \in Callers |-> NoReq]
           /\ settings = DefaultSettings
           /\ infra = NoCall

\* The autoscale requests sent: with no regional pools, with a pool per
\* region, and with two spellings of one region.
AutoscaleRequests ==
    [min_vms : 0..2, max_vms : {1, 3}, jobs_per_vm : {1, 2},
     country : {<<"d", "e">>, <<"U", "S", " ">>},
     country_min_pools : {[k \in {} |-> 0],
                          (<<"d", "e">> :> 1) @@ (<<"u", "s">> :> 1),
                          (<<"d", "e">> :> 1) @@ (<<" ", "D", "E">> :> 2)},
     ram : {<<"2", "5", "6", "M", "B">>}, cpu : {Cpu1}, template_id : {"t-001"}]

FleetNext ==
    \/ \E p \in AutoscaleRequests, id \in AutoIds : EvaluateAutoscale(p, id)
    \/ \E j \in {"job-1", "job-2"} : CreateJob(j, None)
    \/ \E i \in 1..MaxOps : JobStart(i)
    \/ \E i \in 1..MaxOps : JobAttemptAssign(i)
    \/ Respond

FleetSpec == FleetInit /\ [][FleetNext]_vars

----------------------------------------------------------------------------
(* stop_vm served for two callers at the same time: each caller's request
   runs in its own session, and its database statements interleave with the
   other caller's and with the background tasks.  A caller issues one request;
   reqs[c] keeps its position, the row it loaded and, once answered, the HTTP
   code and the id of the Operation returned. *)

Answer(c, code, op) == [reqs EXCEPT ![c].pc = "done", ![c].code = code, ![c].op = op]

\* get_vm and the checks on the loaded row: 404, the `stopped` short cut, 409.
StopLoad(c, v) ==
    /\ reqs[c].pc = "idle"
    /\ LET status == vms[v].status IN
         IF status \in {"absent", "deleted"}
         THEN /\ reqs' = [Answer(c, 404, 0) EXCEPT ![c].vm = v]
              /\ UNCHANGED <<ops, tasks>>
         ELSE IF status = "stopped"
         THEN /\ Enqueue(NewOp("vm", v, "stop", "succeeded", <<"VM already stopped.">>), NoTask)
              /\ reqs' = [Answer(c, 200, Len(ops) + 1) EXCEPT ![c].vm = v]
         ELSE IF status \notin STOPPABLE_VM_STATES
         THEN /\ reqs' = [Answer(c, 409, 0) EXCEPT ![c].vm = v]
              /\ UNCHANGED <<ops, tasks>>
         ELSE /\ reqs' = [reqs EXCEPT ![c].pc = "lookup", ![c].vm = v,
                                      ![c].seen_vm = vms[v]]
              /\ UNCHANGED <<ops, tasks>>
    /\ UNCHANGED <<vms, tunnels, guardrails, last, jobs, settings, infra>>

\* get_latest_operation("vm", vm_id, "stop", {"pending", "running"})
StopLookup(c) ==
    /\ reqs[c].pc = "lookup"
    /\ LET in_flight == get_latest_operation("vm", reqs[c].vm, "stop", IN_FLIGHT) IN
         reqs' = IF in_flight # 0
                 THEN Answer(c, 200, in_flight)
                 ELSE [reqs EXCEPT ![c].pc = "write"]
    /\ UNCHANGED <<vms, tunnels, ops, tasks, guardrails, last, jobs, settings, infra>>

\* update_vm(vm, status="stopping")
StopWrite(c) ==
    /\ reqs[c].pc = "write"
    /\ vms' = update_vm(reqs[c].vm, reqs[c].seen_vm, [status |-> "stopping"])
    /\ reqs' = [reqs EXCEPT ![c].pc = "insert", ![c].seen_vm = Expired]
    /\ UNCHANGED <<tunnels, ops, tasks, guardrails, last, jobs, settings, infra>>

\* create_operation(..., "stop", "pending") + add_task, and the response.
StopInsert(c) ==
    /\ reqs[c].pc = "insert"
    /\ Enqueue(NewOp("vm", reqs[c].vm, "stop", "pending", <<"Stop queued.">>),
               NewTask("stop", reqs[c].vm, 0))
    /\ reqs' = Answer(c, 200, Len(ops) + 1)
    /\ UNCHANGED <<vms, tunnels, guardrails, last, jobs, settings, infra>>

\* A VM is created and provisioned, two callers ask to stop it, and no other
\* request is made.
RaceNext ==
    \/ \E v \in VmIds : CreateVm(v, "t-001", Ram16GB, Cpu1)
    \/ \E c \in Callers, v \in VmIds : StopLoad(c, v)
    \/ \E c \in Callers : StopLookup(c)
    \/ \E c \in Callers : StopWrite(c)
    \/ \E c \in Callers : StopInsert(c)
    \/ \E i \in 1..MaxOps : TaskStart(i)
    \/ \E i \in 1..MaxOps, ok \in BOOLEAN : CreateTaskProvision(i, ok)
    \/ \E i \in 1..MaxOps, ok \in BOOLEAN : CreateTaskRotate(i, ok)
    \/ \E i \in 1..MaxOps, ok \in BOOLEAN : ActionTaskAct(i, ok)
    \/ \E i \in 1..MaxOps : TaskCommitVm(i)
    \/ \E i \in 1..MaxOps : TaskFinish(i)
    \/ \E i \in 1..MaxOps : TaskFail(i)
    \/ Respond

RaceSpec == Init /\ [][RaceNext]_vars

----------------------------------------------------------------------------
C12_BothCallersObtainOperation ==
    [][\A c, d \in Callers :
         (/\ c # d
          /\ reqs[c].pc # "done"
          /\ reqs'[c].pc = "done"
          /\ reqs[d].pc \in {"lookup", "write", "insert"}
          /\ reqs[d].vm = reqs'[c].vm)
            => /\ reqs'[c].code = 200
               /\ reqs'[c].op \in 1..Len(ops')]_vars

\* C13: when the adapter raises in a stop, restart, delete or provisioning
\* task, the task leaves the VM (unless it is deleted) in status `error`, ends
\* its Operation `failed` with the exception text as message, does not call
\* the adapter again, and hands nothing to the caller of the request.
C13_AdapterFailureCaptured ==
    [][\A i \in 1..Len(tasks) :
         LET t == tasks[i] IN
         /\ (/\ t.kind \in {"create", "stop", "restart", "delete"}
             /\ t.pc = "adapter"
             /\ tasks'[i].pc = "fail")
               => /\ vms[t.vm].status # "deleted" => vms'[t.vm].status = "error"
                  /\ last' = NoRequest
         /\ (/\ t.kind \in {"create", "stop", "restart", "delete"}
             /\ t.pc = "fail"
             /\ tasks'[i] # t)
               => /\ tasks'[i].pc = "done"
                  /\ ops'[i].status = "failed"
                  /\ ops'[i].message = t.error
                  /\ last' = NoRequest]_vars

\* C14: when a delete task has written its VM `deleted`, the tunnel that VM
\* had (the row its network_id names) still exists, is `Disconnected` and
\* names no VM; and no step removes a tunnel record.
C14_TunnelOf(i) ==
    IF tasks[i].pc = "adapter" THEN vms[tasks[i].vm].network_id ELSE tasks[i].tunnel

C14_DeleteDetachesTunnel ==
    [][/\ \A k \in 1..Len(tunnels) :
             \E n \in 1..Len(tunnels') : tunnels'[n].id = tunnels[k].id
       /\ \A i \in 1..Len(tasks) :
             (/\ tasks[i].kind = "delete"
              /\ tasks[i].pc \in {"adapter", "detach"}
              /\ tasks'[i].pc = "finish"
              /\ C14_TunnelOf(i) # 0)
                => \E n \in 1..Len(tunnels') :
                      /\ tunnels'[n].id = C14_TunnelOf(i)
                      /\ tunnels'[n].status = "Disconnected"
                      /\ tunnels'[n].vm_id = None]_vars

----------------------------------------------------------------------------
(* Job engine properties *)

IsJobTask(i) == tasks[i].kind = "job"

IsFatal(e) ==
    e # <<>> /\ e[1] \in {"Assigned VM no longer exists.", "Assigned VM is in state"}

IsRetryable(e) ==
    e # <<>> /\ e[1] \in {NoRunningVm[1], "Assigned VM is currently"}

\* C15: the finished_at of an Operation is written once: no later status
\* update changes it.
C15_FinishedAtWrittenOnce ==
    [][\A i \in 1..Len(ops) :
         ops[i].finished_at # 0 => ops'[i].finished_at = ops[i].finished_at]_vars

\* C16: an attempt that finds its VM missing, deleted or in a terminal state is
\* the job's last: the check writes nothing, the job becomes and stays Failed
\* with retry_count as it was, the Operation is failed, and no attempt follows.
C16_FatalEndsJob ==
    [][\A i \in 1..Len(tasks) :
         IsJobTask(i) =>
           LET t == tasks[i]
               j == t.job
               Ended(pc) == /\ tasks'[i].pc = pc
                            /\ tasks'[i].attempt = t.attempt
                            /\ jobs'[j].status = "Failed"
                            /\ jobs'[j].retry_count = jobs[j].retry_count
                            /\ ops'[i].status = "failed"
           IN  /\ (t.pc = "check" /\ tasks'[i].pc = "fatal") => jobs' = jobs
               /\ (t.pc = "fatal" /\ tasks'[i] # t /\ tasks'[i].error = t.error)
                     => Ended("except")
               /\ (t.pc = "except" /\ IsFatal(t.error) /\ tasks'[i] # t)
                     => Ended("done")
               /\ (t.pc = "done" /\ IsFatal(t.error))
                     => tasks'[i] = t /\ jobs'[j] = jobs[j]]_vars

C16_Witness ==
    \E i \in 1..Len(tasks) :
        /\ IsJobTask(i)
        /\ tasks[i].pc = "done"
        /\ IsFatal(tasks[i].error)
        /\ tasks[i].attempt = 2
        /\ jobs[tasks[i].job].status = "Failed"

\* C17: an attempt k+1 that succeeds after k retryable failures leaves the job
\* Completed with retry_count = k, and the job row is not written again.
C17_RetryCountIsFailedAttempts ==
    [][\A i \in 1..Len(tasks) :
         IsJobTask(i) =>
           LET t == tasks[i]
               j == t.job
           IN  /\ (t.pc = "complete" /\ tasks'[i].pc = "done")
                     => /\ jobs'[j].status = "Completed"
                        /\ jobs'[j].retry_count = t.attempt - 1
               /\ (t.pc = "done" /\ jobs[j].status = "Completed")
                     => jobs'[j] = jobs[j]]_vars

C17_Witness ==
    \E i \in 1..Len(tasks) :
        /\ IsJobTask(i)
        /\ tasks[i].pc = "done"
        /\ tasks[i].attempt = MAX_JOB_RETRIES + 1
        /\ jobs[tasks[i].job].status = "Completed"
        /\ jobs[tasks[i].job].retry_count = MAX_JOB_RETRIES

\* C18: a job runs in one task that makes at most 3 attempts, one after the
\* other; when the third fails retryably the job is Failed with that error as
\* error_message and the Operation is failed.
C18_AtMostThreeAttempts ==
    \A i \in 1..Len(tasks) :
        IsJobTask(i) =>
          LET t == tasks[i] IN
          /\ t.attempt <= MAX_JOB_RETRIES + 1
          /\ \A k \in 1..Len(tasks) : (IsJobTask(k) /\ tasks[k].job = t.job) => k = i
          /\ (/\ t.attempt = MAX_JOB_RETRIES + 1
              /\ IsRetryable(t.error)
              /\ t.pc \in {"except", "done"})
                => /\ jobs[t.job].status = "Failed"
                   /\ jobs[t.job].error_message = t.error
                   /\ ops[i].status = "failed"

C18_Witness ==
    \E i \in 1..Len(tasks) :
        /\ IsJobTask(i)
        /\ tasks[i].pc = "done"
        /\ tasks[i].attempt = MAX_JOB_RETRIES + 1
        /\ IsRetryable(tasks[i].error)

\* C19: when a job's task has ended, however it ended, the job is Completed or
\* Failed and its Operation is succeeded or failed.
C19_EndedJobIsTerminal ==
    \A i \in 1..Len(tasks) :
        (IsJobTask(i) /\ tasks[i].pc = "done")
           => /\ jobs[tasks[i].job].status \in {"Completed", "Failed"}
              /\ ops[i].status \in {"succeeded", "failed"}

C19_Witness ==
    \E i \in 1..Len(tasks) :
        /\ IsJobTask(i)
        /\ tasks[i].pc = "done"
        /\ tasks[i].error = UnexpectedError
        /\ jobs[tasks[i].job].progress > 0

\* C20: when a job's task has ended, the job is Completed at progress 100 with
\* no error_message exactly when its Operation is succeeded, and Failed with an
\* error_message exactly when its Operation is failed.
C20_EndStatesAgree ==
    \A i \in 1..Len(tasks) :
        (IsJobTask(i) /\ tasks[i].pc = "done")
           => LET job == jobs[tasks[i].job] IN
              /\ (/\ job.status = "Completed"
                  /\ job.progress = 100
                  /\ job.error_message = <<>>) <=> ops[i].status = "succeeded"
              /\ (job.status = "Failed" /\ job.error_message # <<>>)
                    <=> ops[i].status = "failed"

C20_Witness ==
    \E i \in 1..Len(tasks) :
        /\ IsJobTask(i)
        /\ tasks[i].pc = "done"
        /\ ops[i].status = "succeeded"
        /\ jobs[tasks[i].job].progress = 100

\* C21: create_job answers 409 for a job id in use, 404 for a pinned VM that
\* is missing or deleted and 409 for a pinned VM that is not running, and in
\* each case writes no job record and no Operation (and queues no runner).
C21_RejectedJobWritesNothing ==
    [][Answers({"create_job"}) =>
         \A j \in JobIds :
           LET v       == last'.vm
               Refused(code) == /\ last'.code = code
                                /\ last'.op = 0
                                /\ NothingWritten
                                /\ jobs' = jobs
           IN  /\ jobs[j].status # "absent" => Refused(409)
               /\ (/\ jobs[j].status = "absent"
                   /\ v # None
                   /\ vms[v].status \in {"absent", "deleted"}) => Refused(404)
               /\ (/\ jobs[j].status = "absent"
                   /\ v # None
                   /\ vms[v].status \notin {"absent", "deleted", "running"}) => Refused(409)]_vars

C21_Witness ==
    /\ last.kind = "create_job"
    /\ last.code = 409
    /\ last.vm # None
    /\ \A j \in JobIds : jobs[j].status = "absent"

----------------------------------------------------------------------------
(* Job assignment and autoscale properties *)

C22_Load(v) ==
    Cardinality({k \in DOMAIN jobs :
                   jobs[k].vm_id = v /\ jobs[k].status \in {"Queued", "Running", "Retrying"}})

\* C22: whenever a job that names no VM is given one, by create_job or by its
\* runner, that VM is running, no running VM has fewer active jobs, and no
\* running VM with as few was created earlier.
C22_LeastLoadedAssigned ==
    [][\A j \in DOMAIN jobs :
         (jobs[j].vm_id = None /\ jobs'[j].vm_id # None /\ last'.vm = None)
            => LET v == jobs'[j].vm_id IN
               /\ vms[v].status = "running"
               /\ \A w \in DOMAIN vms :
                     vms[w].status = "running"
                        => \/ C22_Load(v) < C22_Load(w)
                           \/ /\ C22_Load(v) = C22_Load(w)
                              /\ vms[v].created_at <= vms[w].created_at]_vars

\* The regions of the fleet runs, in alphabetical order, and what a request
\* asks of a region: the largest minimum given for any spelling of its name,
\* and min_vms for the region the request names.
RegionsInOrder == <<De, Us>>

RegionalMinimum(p, n) ==
    LET given == {p.country_min_pools[k] :
                    k \in {x \in DOMAIN p.country_min_pools : normalize_country(x) = n}}
                 \cup (IF normalize_country(p.country) = n THEN {p.min_vms} ELSE {0})
    IN  CHOOSE m \in given : \A x \in given : x <= m

SumOfRegionalMinimums(p) == RegionalMinimum(p, De) + RegionalMinimum(p, Us)

RunningIn(n) == Cardinality({v \in DOMAIN vms : vms[v].status = "running" /\ vms[v].country = n})

NumberActive ==
    Cardinality({j \in DOMAIN jobs : jobs[j].status \in {"Queued", "Running", "Retrying"}})

NumberRunning == Cardinality({v \in DOMAIN vms : vms[v].status = "running"})

FleetUntouched == UNCHANGED <<vms, tunnels, ops, tasks, jobs>>

\* C23: an autoscale request with max < min, with min(max, guardrail max_vms)
\* < min, or whose regional minimums sum to more than min(max, guardrail
\* max_vms) is answered 400, and no VM is created or stopped and no Operation
\* is created.
C23_InvalidAutoscaleRejected ==
    [][Answers({"autoscale"}) =>
         LET p   == last'.request
             eff == Min(p.max_vms, guardrails.max_vms)
         IN  (\/ p.max_vms < p.min_vms
              \/ eff < p.min_vms
              \/ SumOfRegionalMinimums(p) > eff)
                => last'.code = 400 /\ FleetUntouched]_vars

C23_Witness ==
    /\ last.kind = "autoscale"
    /\ last.code = 400
    /\ last.request.max_vms >= last.request.min_vms
    /\ Min(last.request.max_vms, guardrails.max_vms) >= last.request.min_vms
    /\ SumOfRegionalMinimums(last.request) > Min(last.request.max_vms, guardrails.max_vms)

\* C24: an evaluation that returns a decision reports desired_vms =
\* min(effective max, max(ceil(active jobs / jobs_per_vm), sum of regional
\* minimums)); its action is scale_up exactly when fewer VMs run than desired,
\* and none when as many run as desired.
C24_DesiredVms ==
    [][(Answers({"autoscale"}) /\ last'.code = 200) =>
         LET p       == last'.request
             eff     == Min(p.max_vms, guardrails.max_vms)
             ceil    == CHOOSE k \in 0..NumberActive :
                           /\ k * p.jobs_per_vm >= NumberActive
                           /\ k > 0 => (k - 1) * p.jobs_per_vm < NumberActive
             desired == Min(eff, Max(ceil, SumOfRegionalMinimums(p)))
         IN  /\ last'.desired_vms = desired
             /\ last'.running_vms = NumberRunning
             /\ last'.active_jobs = NumberActive
             /\ last'.action = "scale_up" <=> NumberRunning < desired
             /\ NumberRunning = desired => last'.action = "none"]_vars

C24_Witness ==
    /\ last.kind = "autoscale"
    /\ last.code = 200
    /\ last.request.jobs_per_vm = 2
    /\ last.active_jobs = 1
    /\ SumOfRegionalMinimums(last.request) = 0
    /\ last.desired_vms = 1
    /\ last.action = "none"

\* C25: an evaluation that answers scale_up has created exactly one VM and
\* changed no other, and reports the create Operation of that VM; the VM is in
\* the region with the largest deficit, then the fewest running VMs, then the
\* first name in alphabetical order, or in the request's region when no region
\* is below its minimum.
C25_Deficit(p, n) == RegionalMinimum(p, n) - RunningIn(n)

C25_Before(p, i, k) ==
    LET n == RegionsInOrder[i]
        m == RegionsInOrder[k]
    IN  \/ C25_Deficit(p, n) > C25_Deficit(p, m)
        \/ C25_Deficit(p, n) = C25_Deficit(p, m) /\ RunningIn(n) < RunningIn(m)
        \/ C25_Deficit(p, n) = C25_Deficit(p, m) /\ RunningIn(n) = RunningIn(m) /\ i < k

C25_Region(p) ==
    LET short == {i \in 1..Len(RegionsInOrder) : C25_Deficit(p, RegionsInOrder[i]) > 0} IN
    IF short = {} THEN normalize_country(p.country)
    ELSE RegionsInOrder[CHOOSE i \in short : \A k \in short \ {i} : C25_Before(p, i, k)]

C25_ScaleUpCreatesOne ==
    [][(Answers({"autoscale"}) /\ last'.action = "scale_up") =>
         LET p == last'.request
             v == last'.vm
         IN  /\ vms[v].status = "absent"
             /\ vms'[v].status = "creating"
             /\ vms'[v].country = C25_Region(p)
             /\ \A w \in DOMAIN vms \ {v} : vms'[w] = vms[w]
             /\ Len(ops') = Len(ops) + 1
             /\ last'.op = Len(ops')
             /\ ops'[last'.op].resource_id = v
             /\ ops'[last'.op].operation = "create"
             /\ SubSeq(ops', 1, Len(ops)) = ops]_vars

C25_Witness ==
    /\ last.kind = "autoscale"
    /\ last.action = "scale_up"
    /\ last.country # normalize_country(last.request.country)
    /\ vms[last.vm].status = "creating"
    /\ RunningIn(De) = 1

\* C26: when more VMs run than desired, the evaluation stops exactly one VM
\* and creates none: a running VM that no active job names, whose region keeps
\* its minimum without it, the most recently created of these.  When there is
\* no such VM nothing changes and the decision is none, for the reason
\* `pools` when idle VMs exist and `busy` when none does.
C26_Idle ==
    {v \in DOMAIN vms :
        /\ vms[v].status = "running"
        /\ \A j \in DOMAIN jobs :
              jobs[j].status \in {"Queued", "Running", "Retrying"} => jobs[j].vm_id # v}

C26_Eligible(p) ==
    {v \in C26_Idle : RunningIn(vms[v].country) - 1 >= RegionalMinimum(p, vms[v].country)}

C26_ScaleDownStopsOne ==
    [][(/\ Answers({"autoscale"})
        /\ last'.code = 200
        /\ last'.running_vms > last'.desired_vms) =>
         LET p == last'.request IN
         IF C26_Eligible(p) # {}
         THEN /\ last'.action = "scale_down"
              /\ last'.vm \in C26_Eligible(p)
              /\ \A w \in C26_Eligible(p) : vms[w].created_at <= vms[last'.vm].created_at
              /\ vms' = [vms EXCEPT ![last'.vm].status = "stopping"]
         ELSE /\ last'.action = "none"
              /\ last'.reason = IF C26_Idle # {} THEN "pools" ELSE "busy"
              /\ FleetUntouched]_vars

\* C27: on one fleet and job snapshot a request has one possible decision:
\* one desired count, one action, and one region to grow in or one VM to stop,
\* whichever order the candidates are met in.
C27_Decisions(p) ==
    IF AutoscaleRejected(p) THEN {<<0, "error", None>>}
    ELSE IF NumberRunning < DesiredVms(p)
    THEN {<<DesiredVms(p), "scale_up", n>> : n \in ScaleUpRegions(p)}
    ELSE IF NumberRunning > DesiredVms(p) /\ EligibleIdleCandidates(p) # {}
    THEN {<<DesiredVms(p), "scale_down", v>> : v \in ScaleDownTargets(p)}
    ELSE {<<DesiredVms(p), "none", None>>}

C27_Deterministic ==
    [][Answers({"autoscale"}) =>
         /\ Cardinality(C27_Decisions(last'.request)) = 1
         /\ last'.code = 200 =>
              <<last'.desired_vms, last'.action,
                IF last'.action = "scale_up" THEN last'.country ELSE last'.vm>>
                 \in C27_Decisions(last'.request)]_vars

C27_Witness ==
    /\ last.kind = "autoscale"
    /\ last.action = "scale_up"
    /\ last.country = De
    /\ RunningIn(De) = 0
    /\ RunningIn(Us) = 0
    /\ RegionalMinimum(last.request, De) = 1
    /\ RegionalMinimum(last.request, Us) = 1

----------------------------------------------------------------------------
(* The adapter under every configuration *)

AdapterInit ==
    /\ vms = [v \in VmIds |-> NoVmRow]
    /\ tunnels = <<>>
    /\ ops = <<>>
    /\ tasks = <<>>
    /\ guardrails = [max_vms |-> GuardMaxVms, min_host_ram_mb |-> SeedMinHostRamMb,
                     max_cpu_per_vm |-> SeedMaxCpuPerVm, overload_prevention |-> TRUE]
    /\ last = NoRequest
    /\ jobs = [j \in JobIds |-> NoJobRow]
    /\ reqs = [c \in Callers |-> NoReq]
    /\ \E mode \in {"mock", "best_effort", "Strict ", "dry"},
          transport \in {"shell", " API", "auto", ""}, fallback \in BOOLEAN,
          vm_url \in {<<>>, <<" ">>, <<"h">>}, proxy_url \in {<<>>, <<" ">>, <<"h">>} :
          settings = Settings(mode, transport, fallback, vm_url, proxy_url)
    /\ infra = NoCall

\* One call on a fresh adapter, under each configuration.
AdapterNext ==
    \/ \E command \in {<<>>, <<NonePart>>, <<NonePart, Part(<<"bash">>)>>,
                       <<Part(<<"ip">>), Part(<<"link">>)>>, <<Part(<<"usr", "bin", "nft">>)>>,
                       <<Part(<<"rm">>), Part(<<"-rf">>)>>, <<Part(<<"usr", "bin", "rm">>)>>,
                       <<Part(<<>>)>>, <<Part(<<"bash-x">>)>>},
          host \in HostOutcomes : RunCommand(command, host)
    \/ \E valid \in BOOLEAN, reply \in ApiReplies, script \in ScriptStates,
          host \in HostStates({"bash", "ansible-playbook", "ip", "firectl"}) :
          ProvisionVm(valid, reply, script, host)
    \/ \E valid \in BOOLEAN, reply \in ApiReplies, script \in ScriptStates,
          host \in HostStates({"bash", "ansible-playbook"}) :
          AdapterStopVm(valid, reply, script, host)
    \/ \E valid \in BOOLEAN, reply \in ApiReplies, script \in ScriptStates,
          host \in HostStates({"bash", "ansible-playbook"}) :
          AdapterRestartVm(valid, reply, script, host)
    \/ \E valid \in BOOLEAN, reply \in ApiReplies, script \in ScriptStates,
          host \in HostStates({"bash", "ansible-playbook", "ip"}) :
          AdapterDeleteVm(valid, reply, script, host)
    \/ \E valid \in BOOLEAN, us \in BOOLEAN, reply \in ApiReplies, reply2 \in ApiReplies,
          script \in ScriptStates, host \in HostStates({"bash", "ansible-playbook", "wg"}) :
          RotateTunnel(valid, us, reply, reply2, script, host)
    \/ \E valid \in BOOLEAN, reply \in ApiReplies, script \in ScriptStates,
          host \in HostStates({"bash", "ansible-playbook", "wg"}) :
          RegisterVps(valid, reply, script, host)
    \/ \E reply \in ApiReplies, host \in HostStates({"ip", "nft"}) :
          CollectSecuritySnapshot(reply, host)

AdapterSpec == AdapterInit /\ [][AdapterNext]_vars

\* The executable name of the command handed to the runner: the last path
\* segment of the first part that is not None ("" when there is none).
C28_Executable(command) ==
    LET given == {i \in 1..Len(command) : ~command[i].none} IN
    IF given = {} THEN ""
    ELSE LET first == command[CHOOSE i \in given : \A k \in given : i <= k].path
         IN  IF Len(first) = 0 THEN "" ELSE first[Len(first)]

\* C28: a call of SafeCommandRunner.run whose executable name is not in the
\* allowlist raises, is neither executed nor simulated, and yields no
\* CommandRun, whatever the mode.
C28_NotAllowlistedFailsClosed ==
    (infra.op = "run"
       /\ C28_Executable(infra.local[1].command) \notin
             {"ansible-playbook", "bash", "firectl", "ip", "nft", "wg", "wg-quick"})
       => /\ infra.raised
          /\ ~infra.local[1].executed
          /\ infra.local[1].run = NoRun
          /\ infra.command_runs = <<>>

C28_Witness ==
    /\ infra.op = "run"
    /\ RunnerMode(settings) = "mock"
    /\ infra.local[1].command = <<Part(<<"usr", "bin", "rm">>)>>
    /\ infra.raised

C29_FiveOperations == {"provision_vm", "stop_vm", "restart_vm", "delete_vm", "rotate_tunnel"}

C29_BaseUrlConfigured ==
    LET url == IF infra.service = "vm" THEN settings.vm_api_base_url
               ELSE settings.proxy_api_base_url
    IN  \E i \in 1..Len(url) : url[i] # " "

C29_ApiFailed == infra.api # <<>> /\ infra.replies[Len(infra.replies)] # "ok"

C29_WentLocal == infra.local # <<>> \/ infra.script # "unchecked"

\* C29: with transport api, an operation whose arguments are accepted never
\* runs a local command or script; it raises when the base URL of its domain
\* is not configured, it raises when the API call fails, and what it returns
\* comes from the API, in every runner mode and for both values of the
\* fallback setting.
C29_ApiNeverFallsBack ==
    (/\ AdapterTransport(settings) = "api"
     /\ infra.op \in C29_FiveOperations
     /\ infra.valid)
       => /\ ~C29_WentLocal
          /\ ~C29_BaseUrlConfigured => infra.raised /\ infra.api = <<>>
          /\ C29_ApiFailed => infra.raised
          /\ ~infra.raised => infra.api # <<>>

\* C30: with transport auto, an operation whose arguments are accepted calls
\* the API first exactly when the base URL of its domain is configured and
\* otherwise goes local; after a failed API call it goes local exactly when
\* the runner mode is not strict and the fallback setting is on, and raises
\* without going local otherwise.  With transport shell the API is never
\* called.
C30_AutoPrefersApi ==
    /\ (AdapterTransport(settings) = "auto" /\ infra.op \notin {"none", "run"} /\ infra.valid)
          => /\ infra.api # <<>> <=> C29_BaseUrlConfigured
             /\ infra.api = <<>> => C29_WentLocal
             /\ (infra.api # <<>> /\ ~C29_ApiFailed) => ~C29_WentLocal /\ ~infra.raised
             /\ C29_ApiFailed =>
                  IF RunnerMode(settings) # "strict" /\ settings.infra_api_fallback_shell
                  THEN C29_WentLocal
                  ELSE infra.raised /\ ~C29_WentLocal
    /\ AdapterTransport(settings) = "shell" => infra.api = <<>>

C30_Witness ==
    /\ AdapterTransport(settings) = "auto"
    /\ infra.op = "provision_vm"
    /\ C29_ApiFailed
    /\ RunnerMode(settings) = "best_effort"
    /\ ~infra.raised
    /\ Len(infra.local) = 5
    /\ Len(infra.command_runs) = 6

----------------------------------------------------------------------------
(* Ledger timestamps and progress *)

\* C31: once an Operation's started_at has been set, no later status update
\* changes it; a `running` update stamps started_at only when it is unset.
C31_StartedAtWrittenOnce ==
    [][\A i \in 1..Len(ops) :
         ops[i].started_at # 0 => ops'[i].started_at = ops[i].started_at]_vars

\* C32: within one attempt the job's progress takes the values 12, 28, 48, 74,
\* 90 in that order with status Running; it becomes 100 only on completion; a
\* retry starts at progress 5 with status Retrying; progress is never 100
\* while the job is not Completed.
C32_ProgressFollowsStages ==
    [][\A i \in 1..Len(tasks) :
         IsJobTask(i) =>
           LET t == tasks[i]
               j == t.job
               targets == <<12, 28, 48, 74, 90>>
           IN  /\ (t.pc = "check" /\ tasks'[i].pc = "stage") => tasks'[i].stage = 1
               /\ (t.pc = "stage" /\ tasks'[i] # t /\ tasks'[i].pc # "except")
                     => /\ jobs'[j].status = "Running"
                        /\ jobs'[j].progress = targets[t.stage]
                        /\ IF t.stage < 5
                           THEN tasks'[i].pc = "stage" /\ tasks'[i].stage = t.stage + 1
                           ELSE tasks'[i].pc = "complete"
               /\ (jobs'[j].progress = 100 /\ jobs[j].progress # 100)
                     => /\ t.pc = "complete"
                        /\ jobs[j].progress = 90
                        /\ jobs'[j].status = "Completed"
               /\ (t.pc = "attempt" /\ t.attempt > 1 /\ tasks'[i].pc = "check")
                     => /\ jobs'[j].status = "Retrying"
                        /\ jobs'[j].progress = 5
               /\ jobs'[j].progress = 100 => jobs'[j].status = "Completed"]_vars

\* A second attempt has run its five stages.
C32_Witness ==
    \E i \in 1..Len(tasks) :
        /\ IsJobTask(i)
        /\ tasks[i].pc = "complete"
        /\ tasks[i].attempt = 2
        /\ jobs[tasks[i].job].status = "Running"
        /\ jobs[tasks[i].job].progress = 90

----------------------------------------------------------------------------
(* InfrastructureAdapter: interface and namespace names *)

IFACE_NAME_MAX_LEN == 15

\* The column width of a VM id.
VmIdMaxLen == 64

\* The longest prefix the environment gives in these runs.
MaxPrefixLen == 17

\* SAFE_TOKEN_PATTERN: one or more of [A-Za-z0-9_.:-]
ensure_safe_token(value) ==
    /\ value # <<>>
    /\ \A i \in 1..Len(value) : value[i] \in {"a", "Z", "7", "_", ".", ":", "-"}

\* _slug: value.lower(), then every character outside [a-z0-9-] becomes "-".
slug(value) ==
    [i \in 1..Len(value) |->
        LET c == IF value[i] = "Z" THEN "z" ELSE value[i]
        IN  IF c \in {"a", "z", "7", "-"} THEN c ELSE "-"]

\* hashlib.sha1(seed).hexdigest(): 40 hexadecimal digits that depend on the
\* seed.  The digits are a stand-in for the hash; their number and alphabet
\* are the hash's.
Sha1Hex(seed) ==
    LET hex  == <<"0", "1", "2", "3", "4", "5", "6", "7",
                  "8", "9", "a", "b", "c", "d", "e", "f">>
        code == ("a" :> 1) @@ ("Z" :> 2) @@ ("7" :> 3) @@ ("_" :> 4)
                  @@ ("." :> 5) @@ (":" :> 6) @@ ("-" :> 7) @@ ("/" :> 8)
        mix  == Len(seed) * 7 + (IF seed = <<>> THEN 0 ELSE code[seed[1]])
    IN  [i \in 1..40 |-> hex[((mix + 3 * i) % 16) + 1]]

\* _safe_iface_name
safe_iface_name(prefix, seed) ==
    LET candidate == prefix \o slug(seed)
        available == IFACE_NAME_MAX_LEN - Len(prefix)
        digest    == Sha1Hex(seed)
    IN  IF Len(candidate) <= IFACE_NAME_MAX_LEN THEN candidate
        ELSE IF available <= 0 THEN SubSeq(digest, 1, IFACE_NAME_MAX_LEN)
        ELSE prefix \o SubSeq(digest, 1, available)

\* The head of provision_vm and of delete_vm: the VM id is checked, then the
\* tap device and the namespace are named.
DerivedNames(op, vm_id) ==
    IF ~ensure_safe_token(vm_id)
    THEN [op |-> op, vm_id |-> vm_id, raised |-> TRUE, tap_dev |-> <<>>, namespace |-> <<>>]
    ELSE [op |-> op, vm_id |-> vm_id, raised |-> FALSE,
          tap_dev |-> safe_iface_name(settings.vm_tap_prefix, vm_id),
          namespace |-> settings.vm_namespace_prefix \o slug(vm_id)]

ProvisionVmNames(vm_id) ==
    /\ infra = NoCall
    /\ infra' = DerivedNames("provision_vm", vm_id)
    /\ AdapterUntouched

DeleteVmNames(vm_id) ==
    /\ infra = NoCall
    /\ infra' = DerivedNames("delete_vm", vm_id)
    /\ AdapterUntouched

\* The prefixes the environment gives: every length up to MaxPrefixLen for the
\* tap prefix; the default, an empty and a long namespace prefix.
NamesInit ==
    /\ vms = [v \in VmIds |-> NoVmRow]
    /\ tunnels = <<>>
    /\ ops = <<>>
    /\ tasks = <<>>
    /\ guardrails = [max_vms |-> GuardMaxVms, min_host_ram_mb |-> SeedMinHostRamMb,
                     max_cpu_per_vm |-> SeedMaxCpuPerVm, overload_prevention |-> TRUE]
    /\ last = NoRequest
    /\ jobs = [j \in JobIds |-> NoJobRow]
    /\ reqs = [c \in Callers |-> NoReq]
    /\ \E k \in 0..MaxPrefixLen,
          ns \in {<<>>, <<"n", "e", "t", "n", "s", "-">>, [i \in 1..15 |-> "n"]} :
          settings = [DefaultSettings EXCEPT
                        !.vm_tap_prefix = [i \in 1..k |-> IF i % 4 = 0 THEN "-" ELSE "t"],
                        !.vm_namespace_prefix = ns]
    /\ infra = NoCall

\* One call with a VM id of every length up to the column width.
NamesNext ==
    \/ \E n \in 0..VmIdMaxLen, c \in {"a", "Z", "7", "_", ".", ":", "-", "/"} :
          ProvisionVmNames([i \in 1..n |-> c])
    \/ \E n \in 0..VmIdMaxLen, c \in {"a", "Z", "7", "_", ".", ":", "-", "/"} :
          DeleteVmNames([i \in 1..n |-> c])

NamesSpec == NamesInit /\ [][NamesNext]_vars

\* C33: every namespace name and every tap device name the adapter derives
\* from a prefix and a VM id has at most IFACE_NAME_MAX_LEN (15) characters.
C33_NamesWithinMaxLen ==
    (infra # NoCall /\ ~infra.raised)
       => /\ Len(infra.tap_dev) <= 15
          /\ Len(infra.namespace) <= 15

----------------------------------------------------------------------------
(* Lifecycle properties, continued *)

\* C35: a create_vm request for an id whose only record is `deleted` is not a
\* duplicate: unless the template, sizing or guardrail checks reject it (404,
\* 400, 409), it succeeds and leaves the VM `creating` with a pending create
\* Operation.
C35_DeletedIdRecreated ==
    [][(/\ Answers({"create_vm"})
        /\ vms[last'.vm].status = "deleted"
        /\ last'.code \notin {400, 404, 409})
          => /\ last'.code = 200
             /\ vms'[last'.vm].status = "creating"
             /\ Len(ops') = Len(ops) + 1
             /\ ops'[Len(ops')].operation = "create"
             /\ ops'[Len(ops')].resource_id = last'.vm
             /\ ops'[Len(ops')].status = "pending"]_vars

\* C36: every Operation whose status is `succeeded` or `failed` has both
\* started_at and finished_at set, the Operations synthesized as `succeeded`
\* by stop_vm and delete_vm included.
C36_TerminalOperationStamped ==
    \A i \in 1..Len(ops) :
        ops[i].status \in {"succeeded", "failed"}
           => ops[i].started_at # 0 /\ ops[i].finished_at # 0

\* C37: an Operation's status only moves pending -> running -> succeeded or
\* failed and never changes once it is succeeded or failed; a job's status
\* never changes once it is Completed or Failed; a job's retry_count never
\* decreases and never exceeds 2.
C37_StatusesMonotonic ==
    [][/\ \A i \in 1..Len(ops) :
            \/ ops'[i].status = ops[i].status
            \/ ops[i].status = "pending" /\ ops'[i].status = "running"
            \/ ops[i].status = "running" /\ ops'[i].status \in {"succeeded", "failed"}
       /\ \A j \in JobIds :
            /\ jobs[j].status \in {"Completed", "Failed"}
                  => jobs'[j].status = jobs[j].status
            /\ jobs'[j].retry_count >= jobs[j].retry_count
            /\ jobs'[j].retry_count <= 2]_vars

----------------------------------------------------------------------------
(* Autoscale evaluations repeated with one request while the provisioning and
   stop tasks they start run.  reqs.autoscaler is the request the caller
   repeats; every evaluation mints a VM id not used before. *)

\* The ids minted, in the order of minting.
ScaleAutoIds == <<"auto-1", "auto-2", "auto-3">>

ScaleInit ==
    /\ vms = [v \in {ScaleAutoIds[k] : k \in 1..Len(ScaleAutoIds)} |-> NoVmRow]
    /\ tunnels = <<>>
    /\ ops = <<>>
    /\ tasks = <<>>
    /\ \E max_vms \in {1, 3} :
          guardrails = [max_vms |-> max_vms, min_host_ram_mb |-> SeedMinHostRamMb,
                        max_cpu_per_vm |-> SeedMaxCpuPerVm, overload_prevention |-> TRUE]
    /\ last = NoRequest
    /\ jobs = [j \in JobIds |-> NoJobRow]
    /\ \E p \in [min_vms : 0..2, max_vms : {1, 2}, jobs_per_vm : {1},
                 country : {<<"u", "s">>},
                 country_min_pools : {[k \in {} |-> 0], (<<"d", "e">> :> 1)},
                 ram : {<<"2", "5", "6", "M", "B">>}, cpu : {Cpu1}, template_id : {"t-001"}] :
          reqs = [c \in {"autoscaler"} |-> p]
    /\ settings = DefaultSettings
    /\ infra = NoCall

ScaleNext ==
    \/ \E k \in 1..Len(ScaleAutoIds) :
          /\ vms[ScaleAutoIds[k]].status = "absent"
          /\ \A m \in 1..(k - 1) : vms[ScaleAutoIds[m]].status # "absent"
          /\ EvaluateAutoscale(reqs.autoscaler, ScaleAutoIds[k])
    \/ \E i \in 1..MaxOps : TaskStart(i)
    \/ \E i \in 1..MaxOps, ok \in BOOLEAN : CreateTaskProvision(i, ok)
    \/ \E i \in 1..MaxOps, ok \in BOOLEAN : CreateTaskRotate(i, ok)
    \/ \E i \in 1..MaxOps, ok \in BOOLEAN : ActionTaskAct(i, ok)
    \/ \E i \in 1..MaxOps : TaskCommitVm(i)
    \/ \E i \in 1..MaxOps : TaskFinish(i)
    \/ \E i \in 1..MaxOps : TaskFail(i)
    \/ Respond

ScaleSpec == ScaleInit /\ [][ScaleNext]_vars

\* C38: while one accepted autoscale request is evaluated again and again and
\* the provisioning tasks run, the number of VMs in active states never
\* exceeds the request's effective max, min(requested max_vms, guardrail
\* max_vms).
C38_ActiveWithinEffectiveMax ==
    ~AutoscaleRejected(reqs.autoscaler)
       => count_vms(ACTIVE_VM_STATES) <= Min(reqs.autoscaler.max_vms, guardrails.max_vms)

----------------------------------------------------------------------------
(* Jobs, VMs and tunnels *)

\* C39: a job whose status is Running has an assigned VM whose status is
\* `running`, whatever stop, delete or failure interleaves with its stages.
C39_RunningJobOnRunningVm ==
    \A j \in JobIds :
        jobs[j].status = "Running"
           => /\ jobs[j].vm_id # None
              /\ vms[jobs[j].vm_id].status = "running"

\* VMs of the fleet are deleted and stopped while the others keep running.
RegionNext ==
    \/ \E v \in VmIds : DeleteVm(v)
    \/ \E v \in VmIds : StopVm(v)
    \/ \E i \in 1..MaxOps : TaskStart(i)
    \/ \E i \in 1..MaxOps, ok \in BOOLEAN : ActionTaskAct(i, ok)
    \/ \E i \in 1..MaxOps : DeleteTaskDetach(i)
    \/ \E i \in 1..MaxOps : TaskFinish(i)
    \/ \E i \in 1..MaxOps : TaskFail(i)
    \/ Respond

RegionSpec == FleetInit /\ [][RegionNext]_vars

\* C40: every VM in status `running` that names a tunnel names an existing
\* tunnel whose status is Connected; deleting one VM of a region does not
\* disconnect the tunnel another running VM of the region still uses.
C40_RunningVmTunnelConnected ==
    \A v \in DOMAIN vms :
        (vms[v].status = "running" /\ vms[v].network_id # 0)
           => \E n \in 1..Len(tunnels) :
                 /\ tunnels[n].id = vms[v].network_id
                 /\ tunnels[n].status = "Connected"

----------------------------------------------------------------------------
(* Every request kind on one VM and one job, with the background tasks
   scheduled fairly.  A task runs on a worker thread of its own: whenever it
   has a step to take it eventually takes it, whatever requests are served
   meanwhile, and a handler that has computed its response returns it.
   Requests are served while the ledger has room for another Operation. *)

TaskStep(i) ==
    \/ TaskStart(i)
    \/ \E ok \in BOOLEAN : CreateTaskProvision(i, ok)
    \/ \E ok \in BOOLEAN : CreateTaskRotate(i, ok)
    \/ \E ok \in BOOLEAN : ActionTaskAct(i, ok)
    \/ DeleteTaskDetach(i)
    \/ \E ok \in BOOLEAN : RotationTaskRotate(i, ok)
    \/ TaskCommitVm(i)
    \/ TaskFinish(i)
    \/ TaskFail(i)
    \/ JobStart(i)
    \/ JobAttemptBegin(i)
    \/ JobAttemptAssign(i)
    \/ JobAttemptCheck(i)
    \/ JobStage(i)
    \/ JobSucceed(i)
    \/ JobRetryable(i)
    \/ JobFatal(i)
    \/ JobRaise(i)
    \/ JobExcept(i)

LiveRequest ==
    \/ CreateVm("vm-a", "t-001", Ram16GB, Cpu1)
    \/ StopVm("vm-a")
    \/ RestartVm("vm-a")
    \/ DeleteVm("vm-a")
    \/ RotateIp("vm-a")
    \/ \E v \in {"vm-a", None} : CreateJob("job-1", v)

LiveNext ==
    \/ Len(ops) < MaxOps /\ LiveRequest
    \/ \E i \in 1..MaxOps : TaskStep(i)
    \/ Respond

LiveSpec ==
    /\ Init
    /\ [][LiveNext]_vars
    /\ WF_vars(Respond)
    /\ \A i \in 1..MaxOps : SF_vars(TaskStep(i))

====
